---- MODULE Spec2Model ----
(***************************************************************************)
(* Patient/doctor request workflow of AvaBuddie: the tables                *)
(* patient_doctor_requests, patient_doctor_relationships and               *)
(* notifications, their row-level policies, the stored procedures          *)
(* approve_doctor_request / reject_doctor_request / create_notification,   *)
(* the insert trigger on patient_doctor_requests, and the client calls     *)
(* that reach them (patientService, doctorService,                         *)
(* patientDoctorRequestService).                                           *)
(*                                                                         *)
(* Every client call is an asynchronous sequence of round trips; a call    *)
(* in flight occupies one slot of `call`, and round trips of different    *)
(* slots interleave freely.  One stored-procedure invocation or one       *)
(* single-statement round trip is one database transaction.  `outcome`    *)
(* is what the most recently completed call returned or threw.            *)
(***************************************************************************)
EXTENDS Integers, FiniteSets, Sequences, Bags, TLC

VARIABLES patient_doctor_requests, patient_doctor_relationships,
          notifications, call, outcome, started,
          chat_sessions, clock, chat_history,
          api_key, fetches, consultation,
          gemini,
          gemini_key, loaded,
          auth_users, profiles, doctors, storage_objects,
          consultation_reports,
          chat_ui, auth

\* the chat-session table, the wall clock that new Date() reads, and the
\* history of the saveMessage calls made so far (a history variable)
chatVars == <<chat_sessions, clock, chat_history>>

\* the video service's configured key, the HTTP requests sent to the
\* vendors so far, and the state of the video consultation component
videoVars == <<api_key, fetches, consultation>>

\* the last call of the AI assistant service: its arguments, the answer
\* of the model vendor, the requests it sent and what it returned
aiVars == <<gemini>>

\* the rest of the application: the text vendor's key as the build
\* embeds it and the state of the two service modules (unloaded, ready,
\* or threw while the module was evaluated)
startupVars == <<gemini_key, loaded>>

\* the account tables (auth.users, profiles, doctors) and the objects of
\* the chat_images bucket
accountVars == <<auth_users, profiles, doctors, storage_objects>>

\* the table of the reports patients send to doctors
reportVars == <<consultation_reports>>

\* the ChatInterface component: its state, its refs and the
\* handleSendMessage invocations in progress
uiVars == <<chat_ui>>

\* the state of AuthProvider and the auth calls it has in flight
authVars == <<auth>>

appVars == <<startupVars, accountVars, reportVars, uiVars, authVars>>

\* what the request workflow, and the notification inbox, leave alone
outsideRequests == <<chatVars, videoVars, aiVars, appVars>>
outsideInbox == <<chatVars, videoVars, aiVars, appVars>>

vars == <<patient_doctor_requests, patient_doctor_relationships,
          notifications, call, outcome, started, chatVars, videoVars,
          aiVars, appVars>>

\* ---------------------------------------------------------------- bounds
\* request ids a caller may pass to a procedure (rows get ids 1, 2, ...)
MaxReqId == 2
\* client calls issued in one run
MaxCalls == 3

\* ------------------------------------------------------------- profiles
NULL == "NULL"

Patients == {"p1"}
Doctors == {"d1", "d2"}
Profiles == Patients \cup Doctors

\* profiles.role
ProfileRole(p) == IF p \in Doctors THEN "doctor" ELSE "patient"

ReqIds == 1..MaxReqId
\* two browser tabs, so that two calls can be in flight at once
Slots == {1, 2}
Messages == {"please see me"}
Reasons == {NULL, "busy"}

\* ------------------------------------------------------------- the rows
RequestRow(id, p, d, m) ==
  [id |-> id, patient_id |-> p, doctor_id |-> d, message |-> m,
   status |-> "pending", responded_at |-> NULL]

Notification(user, title, rid, reason) ==
  [user_id |-> user, type |-> "doctor_request", title |-> title,
   request_id |-> rid, reason |-> reason, read |-> FALSE]

RequestsWithId(rid) == {r \in patient_doctor_requests : r.id = rid}

RequestsOfPair(p, d) ==
  {r \in patient_doctor_requests : r.patient_id = p /\ r.doctor_id = d}

RelationshipsOfPair(p, d) ==
  {r \in patient_doctor_relationships : r.patient_id = p /\ r.doctor_id = d}

\* gen_random_uuid(): an id no existing row has
NewRequestId == Cardinality(patient_doctor_requests) + 1
NewRelationshipId == Cardinality(patient_doctor_relationships) + 1

\* ------------------------------------------------------ the call record
\* notify_failed: a notification path of the call has failed so far
Idle == [op |-> "idle", pc |-> "idle", caller |-> NULL, target |-> NULL,
         arg |-> NULL, data |-> NULL, notify_failed |-> FALSE]

Begin(op, pc, c, target, arg, data) ==
  [op |-> op, pc |-> pc, caller |-> c, target |-> target, arg |-> arg,
   data |-> data, notify_failed |-> FALSE]

NoOutcome == [op |-> "none", caller |-> NULL, target |-> NULL,
              arg |-> NULL, data |-> NULL, notify_failed |-> FALSE,
              result |-> NULL]

\* a call is issued from the first free slot
Issue(s) ==
  /\ call[s] = Idle
  /\ \A t \in Slots : t < s => call[t] # Idle
  /\ started < MaxCalls
  /\ started' = started + 1

\* the call in slot s goes on to its next round trip
Proceed(s, rec) ==
  /\ call' = [call EXCEPT ![s] = rec]
  /\ outcome' = outcome

\* the call in slot s returns (or throws) `result`
Complete(s, rec, result) ==
  /\ call' = [call EXCEPT ![s] = Idle]
  /\ outcome' = [op |-> rec.op, caller |-> rec.caller,
                 target |-> rec.target, arg |-> rec.arg,
                 data |-> rec.data, notify_failed |-> rec.notify_failed,
                 result |-> result]

\* ------------------------------------------------- row-level policies
\* The caller is identified with the profile whose user_id is auth.uid().

\* policy "Patients can create requests" (INSERT WITH CHECK)
PatientsCanCreateRequests(c, row) ==
  row.patient_id = c /\ ProfileRole(c) = "patient"

\* policy "Doctors can update requests" (UPDATE USING)
DoctorsCanUpdateRequests(c, row) ==
  row.doctor_id = c /\ ProfileRole(c) = "doctor"

\* policy "Users can read own requests" (SELECT USING)
UsersCanReadOwnRequests(c, row) ==
  c \in {row.patient_id, row.doctor_id}

\* policy "Doctors can create patient relationships" (INSERT WITH CHECK)
DoctorsCanCreatePatientRelationships(c, row) ==
  row.doctor_id = c /\ ProfileRole(c) = "doctor"

\* ---------------------------------------------------- table constraints
\* the requests table without its UNIQUE(patient_id, doctor_id)
RequestPairTaken_NoUnique(p, d) == FALSE

\* UNIQUE(patient_id, doctor_id) on patient_doctor_requests
RequestPairTaken(p, d) == RequestsOfPair(p, d) # {}

\* UNIQUE(patient_id, doctor_id) on patient_doctor_relationships
RelationshipPairTaken(p, d) == RelationshipsOfPair(p, d) # {}

RelationshipRow(p, d) ==
  [id |-> NewRelationshipId, patient_id |-> p, doctor_id |-> d]

\* a plain INSERT into a relationships table without its unique index
InsertRelationshipAlways(p, d) ==
  patient_doctor_relationships \cup {RelationshipRow(p, d)}

\* INSERT INTO patient_doctor_relationships ... ON CONFLICT DO NOTHING
InsertRelationshipOnConflictDoNothing(p, d) ==
  IF RelationshipPairTaken(p, d)
  THEN patient_doctor_relationships
  ELSE patient_doctor_relationships \cup {RelationshipRow(p, d)}

\* UPDATE patient_doctor_requests SET status, responded_at on the rows
\* `matched` that the WHERE clause (and the update policy) selects
UpdateRequests(matched, status) ==
  {IF r \in matched
   THEN [r EXCEPT !.status = status, !.responded_at = "now"]
   ELSE r : r \in patient_doctor_requests}

\* ------------------------------------------------- stored procedures
\* create_notification: one unread row for an existing target profile,
\* no row otherwise
create_notification(target, title, rid, reason) ==
  IF target \in Profiles
  THEN SetToBag({Notification(target, title, rid, reason)})
  ELSE EmptyBag

\* the trigger function without its EXCEPTION clause
handle_doctor_request_notification_NoHandler(new, fault) ==
  IF fault
  THEN [raised |-> TRUE, added |-> EmptyBag]
  ELSE [raised |-> FALSE,
        added |-> SetToBag({Notification(new.doctor_id,
                               "New Patient Request", new.id, NULL)})]

\* AFTER INSERT trigger on patient_doctor_requests.  `fault` is an error
\* raised while the notification row is inserted; the handler's EXCEPTION
\* WHEN OTHERS clause swallows it and returns NEW.
handle_doctor_request_notification(new, fault) ==
  IF fault
  THEN [raised |-> FALSE, added |-> EmptyBag]
  ELSE [raised |-> FALSE,
        added |-> SetToBag({Notification(new.doctor_id,
                               "New Patient Request", new.id, NULL)})]

\* INSERT INTO patient_doctor_requests by caller c, with its trigger: the
\* policy check, the uniqueness check, then the trigger; an error raised
\* out of the trigger aborts the statement.
InsertRequest(c, p, d, m, fault) ==
  LET row == RequestRow(NewRequestId, p, d, m)
      trig == handle_doctor_request_notification(row, fault)
      failed(e) == [error |-> e, id |-> NULL,
                    rows |-> patient_doctor_requests,
                    notifs |-> notifications]
  IN IF ~PatientsCanCreateRequests(c, row) THEN failed("rls_violation")
     ELSE IF RequestPairTaken(p, d) THEN failed("unique_violation")
     ELSE IF trig.raised THEN failed("trigger_error")
     ELSE [error |-> NULL, id |-> row.id,
           rows |-> patient_doctor_requests \cup {row},
           notifs |-> notifications (+) trig.added]

\* --------------------------------------- patientService.requestDoctor
\* getCurrentProfile, the role check and the insert round trip
requestDoctor(s, c, d, m) ==
  /\ Issue(s)
  /\ IF ProfileRole(c) # "patient"
     THEN /\ Complete(s, Begin("requestDoctor", "insert", c, d, NULL, NULL),
                      "error_only_patients")
          /\ UNCHANGED <<patient_doctor_requests, notifications>>
     ELSE \E fault \in BOOLEAN :
          LET out == InsertRequest(c, c, d, m, fault)
              rec == [Begin("requestDoctor", "notify", c, d, NULL, out.id)
                        EXCEPT !.notify_failed = fault /\ out.error = NULL]
          IN /\ patient_doctor_requests' = out.rows
             /\ notifications' = out.notifs
             /\ IF out.error # NULL THEN Complete(s, rec, out.error)
                ELSE Proceed(s, rec)
  /\ UNCHANGED patient_doctor_relationships
  /\ UNCHANGED outsideRequests

\* the "manual fallback": rpc('create_notification'); its error is logged
\* and the request row is returned
requestDoctorNotify(s) ==
  /\ call[s].op = "requestDoctor" /\ call[s].pc = "notify"
  /\ \E fault \in BOOLEAN :
       /\ notifications' =
            IF fault THEN notifications
            ELSE notifications (+)
                 create_notification(call[s].target, "New Patient Request",
                                     call[s].data, NULL)
       /\ Complete(s, [call[s] EXCEPT !.notify_failed = @ \/ fault], "ok")
  /\ UNCHANGED <<patient_doctor_requests, patient_doctor_relationships,
                 started>>
  /\ UNCHANGED outsideRequests

\* ------------------------- patientDoctorRequestService.createRequest
\* no client-side role check; message || ''
createRequest(s, c, d, m) ==
  /\ Issue(s)
  /\ \E fault \in BOOLEAN :
       LET msg == IF m = NULL THEN "" ELSE m
           out == InsertRequest(c, c, d, msg, fault)
           rec == [Begin("createRequest", "insert", c, d, NULL, out.id)
                     EXCEPT !.notify_failed = fault /\ out.error = NULL]
       IN /\ patient_doctor_requests' = out.rows
          /\ notifications' = out.notifs
          /\ Complete(s, rec, IF out.error # NULL THEN out.error ELSE "ok")
  /\ UNCHANGED patient_doctor_relationships
  /\ UNCHANGED outsideRequests

\* approve_doctor_request without its IF NOT FOUND THEN RAISE
approveRequest_NoFoundCheck(s, c, rid) ==
  /\ Issue(s)
  /\ LET found == RequestsWithId(rid)
         rec == Begin("approveRequest", "write", c, rid, NULL, NULL)
     IN IF found = {} THEN Complete(s, rec, "ok")
        ELSE LET r == CHOOSE x \in found : TRUE
             IN Proceed(s, [rec EXCEPT
                              !.data = <<r.patient_id, r.doctor_id>>])
  /\ UNCHANGED <<patient_doctor_requests, patient_doctor_relationships,
                 notifications>>
  /\ UNCHANGED outsideRequests

\* ------------------------------------------------ approve_doctor_request
\* doctorService.approveRequest: rpc('approve_doctor_request').  The
\* procedure is SECURITY DEFINER and executable by every authenticated
\* caller; it reads the request row (raising when there is none) ...
approveRequest(s, c, rid) ==
  /\ Issue(s)
  /\ LET found == RequestsWithId(rid)
         rec == Begin("approveRequest", "write", c, rid, NULL, NULL)
     IN IF found = {} THEN Complete(s, rec, "error_request_not_found")
        ELSE LET r == CHOOSE x \in found : TRUE
             IN Proceed(s, [rec EXCEPT
                              !.data = <<r.patient_id, r.doctor_id>>])
  /\ UNCHANGED <<patient_doctor_requests, patient_doctor_relationships,
                 notifications>>
  /\ UNCHANGED outsideRequests

\* ... and then, holding the row lock of its UPDATE until it commits,
\* sets the status, inserts the relationship and notifies the patient.
approve_doctor_request(s) ==
  /\ call[s].op = "approveRequest" /\ call[s].pc = "write"
  /\ LET rid == call[s].target
         p == call[s].data[1]
         d == call[s].data[2]
     IN /\ patient_doctor_requests' =
             UpdateRequests(RequestsWithId(rid), "approved")
        /\ patient_doctor_relationships' =
             InsertRelationshipOnConflictDoNothing(p, d)
        /\ notifications' = notifications (+)
             create_notification(p, "Doctor Request Approved", rid, NULL)
  /\ Complete(s, call[s], "ok")
  /\ UNCHANGED started
  /\ UNCHANGED outsideRequests

\* ------------------------------------------------- reject_doctor_request
rejectRequest(s, c, rid, reason) ==
  /\ Issue(s)
  /\ LET found == RequestsWithId(rid)
         rec == Begin("rejectRequest", "write", c, rid, reason, NULL)
     IN IF found = {} THEN Complete(s, rec, "error_request_not_found")
        ELSE LET r == CHOOSE x \in found : TRUE
             IN Proceed(s, [rec EXCEPT
                              !.data = <<r.patient_id, r.doctor_id>>])
  /\ UNCHANGED <<patient_doctor_requests, patient_doctor_relationships,
                 notifications>>
  /\ UNCHANGED outsideRequests

\* reject_doctor_request with the relationship insert of the approval
reject_doctor_request_AlsoLinks(s) ==
  /\ call[s].op = "rejectRequest" /\ call[s].pc = "write"
  /\ LET rid == call[s].target
         p == call[s].data[1]
     IN /\ patient_doctor_requests' =
             UpdateRequests(RequestsWithId(rid), "rejected")
        /\ notifications' = notifications (+)
             create_notification(p, "Doctor Request Declined", rid,
                                 call[s].arg)
  /\ patient_doctor_relationships' =
       InsertRelationshipOnConflictDoNothing(call[s].data[1],
                                             call[s].data[2])
  /\ Complete(s, call[s], "ok")
  /\ UNCHANGED started
  /\ UNCHANGED outsideRequests

reject_doctor_request(s) ==
  /\ call[s].op = "rejectRequest" /\ call[s].pc = "write"
  /\ LET rid == call[s].target
         p == call[s].data[1]
     IN /\ patient_doctor_requests' =
             UpdateRequests(RequestsWithId(rid), "rejected")
        /\ notifications' = notifications (+)
             create_notification(p, "Doctor Request Declined", rid,
                                 call[s].arg)
  /\ patient_doctor_relationships' = patient_doctor_relationships
  /\ Complete(s, call[s], "ok")
  /\ UNCHANGED started
  /\ UNCHANGED outsideRequests

\* ------------------ patientDoctorRequestService.updateRequestStatus
\* first round trip: UPDATE ... WHERE id = requestId, filtered by the
\* update policy; a statement that matches no row is not an error
updateRequestStatus(s, c, rid, status) ==
  /\ Issue(s)
  /\ LET matched == {r \in RequestsWithId(rid) :
                        DoctorsCanUpdateRequests(c, r)}
         rec == Begin("updateRequestStatus", "select", c, rid, status, NULL)
     IN /\ patient_doctor_requests' = UpdateRequests(matched, status)
        /\ IF status = "approved" THEN Proceed(s, rec)
           ELSE Complete(s, rec, "true")
  /\ UNCHANGED <<patient_doctor_relationships, notifications>>
  /\ UNCHANGED outsideRequests

\* second round trip: SELECT patient_id, doctor_id ... single(); a failed
\* round trip leaves `request` null and the call still returns true
updateRequestStatusSelect(s) ==
  /\ call[s].op = "updateRequestStatus" /\ call[s].pc = "select"
  /\ \E fault \in BOOLEAN :
       LET visible == {r \in RequestsWithId(call[s].target) :
                         UsersCanReadOwnRequests(call[s].caller, r)}
       IN IF fault \/ visible = {} THEN Complete(s, call[s], "true")
          ELSE LET r == CHOOSE x \in visible : TRUE
               IN Proceed(s, [call[s] EXCEPT !.pc = "insert",
                                !.data = <<r.patient_id, r.doctor_id>>])
  /\ UNCHANGED <<patient_doctor_requests, patient_doctor_relationships,
                 notifications, started>>
  /\ UNCHANGED outsideRequests

\* third round trip: INSERT INTO patient_doctor_relationships; the
\* result (policy violation, unique violation, failed round trip) is
\* discarded
updateRequestStatusInsert(s) ==
  /\ call[s].op = "updateRequestStatus" /\ call[s].pc = "insert"
  /\ \E fault \in BOOLEAN :
       LET p == call[s].data[1]
           d == call[s].data[2]
           row == RelationshipRow(p, d)
       IN patient_doctor_relationships' =
            IF /\ ~fault
               /\ DoctorsCanCreatePatientRelationships(call[s].caller, row)
            THEN InsertRelationshipOnConflictDoNothing(p, d)
            ELSE patient_doctor_relationships
  /\ Complete(s, call[s], "true")
  /\ UNCHANGED <<patient_doctor_requests, notifications, started>>
  /\ UNCHANGED outsideRequests

\* the tables are empty and no call is in flight
TablesInit ==
  /\ patient_doctor_requests = {}
  /\ patient_doctor_relationships = {}
  /\ notifications = EmptyBag
  /\ call = [s \in Slots |-> Idle]
  /\ outcome = NoOutcome
  /\ started = 0
  /\ chat_sessions = {}
  /\ clock = 0
  /\ chat_history = << >>

\* null and undefined where a string is expected (a string is a sequence
\* of characters)
NullId == <<"null">>
UndefinedId == <<"undefined">>

\* the video consultation component as useState / useRef initialise it;
\* pc is the position of startConsultation, attempt the history of the
\* current attempt, streamRef the stream streamRef.current holds (none, one
\* with live tracks, one with stopped tracks), effectId the conversationId
\* the mounted effect closed over
Unstarted ==
  [isConnecting |-> FALSE, isConnected |-> FALSE, conversationId |-> NullId,
   error |-> NULL, connectionStatus |-> "idle", conversationUrl |-> NULL,
   hasUserMedia |-> FALSE, pc |-> "idle",
   attempt |-> [media |-> "none", created |-> FALSE],
   streamRef |-> "none", effectId |-> NullId]

\* geminiService before its first call: nothing asked, nothing sent
NoAiCall ==
  [op |-> "none", imageBase64 |-> << >>, userMessage |-> "",
   history |-> << >>, answer |-> NULL, requests |-> << >>,
   resolved |-> TRUE, value |-> NULL]

\* no ChatInterface is mounted
NoChatInterface == [load |-> "unmounted"]

\* no AuthProvider is mounted
NoAuthProvider == [init |-> "unmounted"]

\* the account tables of the deployment the other sections work on: one
\* signed-up user per profile of Profiles, each doctor with the doctors row
\* the profile trigger made
SeededAccounts ==
  /\ auth_users = {[id |-> <<"u_", p>>, role |-> ProfileRole(p)] :
                     p \in Profiles}
  /\ profiles = {[id |-> <<p>>, user_id |-> <<"u_", p>>,
                   role |-> ProfileRole(p)] : p \in Profiles}
  /\ doctors = {[profile_id |-> <<d>>, license_number |-> <<"TEMP_", d>>,
                  verified |-> FALSE] : d \in Doctors}
  /\ storage_objects = {}

\* the rest of the application of a deployment with every key configured:
\* both service modules were evaluated and export their singleton
AppInit ==
  /\ gemini_key = "key"
  /\ loaded = [gemini |-> "ready", tavus |-> "ready"]
  /\ SeededAccounts
  /\ consultation_reports = {}
  /\ chat_ui = NoChatInterface
  /\ auth = NoAuthProvider

\* a deployment with its vendor key configured
Init ==
  /\ TablesInit
  /\ api_key = "key"
  /\ fetches = << >>
  /\ consultation = Unstarted
  /\ gemini = NoAiCall
  /\ AppInit

Next ==
  \/ \E s \in Slots, c \in Profiles, d \in Doctors, m \in Messages :
       requestDoctor(s, c, d, m)
  \/ \E s \in Slots : requestDoctorNotify(s)
  \/ \E s \in Slots, c \in Profiles, d \in Doctors, m \in Messages :
       createRequest(s, c, d, m)
  \/ \E s \in Slots, c \in Profiles, rid \in ReqIds : approveRequest(s, c, rid)
  \/ \E s \in Slots : approve_doctor_request(s)
  \/ \E s \in Slots, c \in Profiles, rid \in ReqIds, reason \in Reasons :
       rejectRequest(s, c, rid, reason)
  \/ \E s \in Slots : reject_doctor_request(s)
  \/ \E s \in Slots, c \in Profiles, rid \in ReqIds,
        status \in {"approved", "rejected"} :
       updateRequestStatus(s, c, rid, status)
  \/ \E s \in Slots : updateRequestStatusSelect(s)
  \/ \E s \in Slots : updateRequestStatusInsert(s)

Spec == Init /\ [][Next]_vars

TypeOK ==
  /\ \A r \in patient_doctor_requests :
       /\ r.patient_id \in Profiles /\ r.doctor_id \in Profiles
       /\ r.status \in {"pending", "approved", "rejected"}
  /\ \A s \in Slots : call[s].pc \in
       {"idle", "notify", "write", "select", "insert"}
  /\ started \in 0..MaxCalls

\* ------------------------------------------------------------ properties
IsRequestCall(op) == op \in {"requestDoctor", "createRequest"}
IsRespondCall(op) == op \in {"approveRequest", "rejectRequest"}

\* a call was issued and completed within this step
IssuedAndCompleted == started' = started + 1 /\ call' = call

TablesUnchanged ==
  /\ patient_doctor_requests' = patient_doctor_requests
  /\ patient_doctor_relationships' = patient_doctor_relationships
  /\ notifications' = notifications

ApprovedNotification(r) ==
  Notification(r.patient_id, "Doctor Request Approved", r.id, NULL)

\* number of notification rows about request rid in the inbox of `user`
InboxCount(B, user, rid) ==
  LET about == {n \in BagToSet(B) : n.user_id = user /\ n.request_id = rid
                  /\ n.type = "doctor_request" /\ ~n.read}
      RECURSIVE Sum(_)
      Sum(S) == IF S = {} THEN 0
                ELSE LET n == CHOOSE x \in S : TRUE
                     IN CopiesIn(n, B) + Sum(S \ {n})
  IN Sum(about)

\* C1: every (patient, doctor) pair has at most one request row, and a
\* requestDoctor / createRequest call for a pair that already has a row
\* fails with an error and leaves the table as it was.
UniqueRequestPerPair ==
  \A p \in Profiles, d \in Profiles :
    Cardinality(RequestsOfPair(p, d)) <= 1

DuplicateRequestFails ==
  (/\ IssuedAndCompleted
   /\ IsRequestCall(outcome'.op)
   /\ RequestsOfPair(outcome'.caller, outcome'.target) # {})
  => /\ outcome'.result # "ok"
     /\ patient_doctor_requests' = patient_doctor_requests

C1_OneRequestPerPair ==
  [](UniqueRequestPerPair) /\ [][DuplicateRequestFails]_vars

C1_Witness ==
  /\ IsRequestCall(outcome.op)
  /\ outcome.result = "unique_violation"
  /\ Cardinality(RequestsOfPair(outcome.caller, outcome.target)) = 1

\* C2: however often a request has been approved through approveRequest,
\* its pair has exactly one relationship row.
C2_ApprovalIdempotent ==
  \A r \in patient_doctor_requests :
    CopiesIn(ApprovedNotification(r), notifications) >= 1
      => Cardinality(RelationshipsOfPair(r.patient_id, r.doctor_id)) = 1

C2_Witness ==
  \E r \in patient_doctor_requests :
    /\ CopiesIn(ApprovedNotification(r), notifications) >= 2
    /\ outcome.op = "approveRequest" /\ outcome.result = "ok"
    /\ outcome.target = r.id
    /\ Cardinality(RelationshipsOfPair(r.patient_id, r.doctor_id)) = 1

\* C3: when an approve call (approveRequest or updateRequestStatus with
\* 'approved') completes, the request is approved if and only if the
\* relationship row of its pair exists.
IsApproveCall(rec) ==
  \/ rec.op = "approveRequest"
  \/ rec.op = "updateRequestStatus" /\ rec.arg = "approved"

C3_ApprovalAllOrNothing ==
  [][\A s \in Slots :
       (IsApproveCall(call[s]) /\ call'[s] = Idle)
       => \A r \in patient_doctor_requests' :
            r.id = call[s].target
            => (r.status = "approved"
                <=> \E l \in patient_doctor_relationships' :
                      /\ l.patient_id = r.patient_id
                      /\ l.doctor_id = r.doctor_id)]_vars

\* C4: approveRequest and rejectRequest take effect only for the doctor
\* the request is addressed to; for any other caller they fail with an
\* authorization error and change no table.
C4_OnlyAddressedDoctorResponds ==
  [][\A s \in Slots :
       (/\ IsRespondCall(call[s].op) /\ call[s].pc = "write"
        /\ call'[s] = Idle
        /\ ~(/\ ProfileRole(call[s].caller) = "doctor"
             /\ call[s].caller = call[s].data[2]))
       => /\ outcome'.result = "error_unauthorized"
          /\ TablesUnchanged]_vars

\* C5: a request whose status is approved or rejected keeps that status.
C5_TerminalStatus ==
  [][\A r \in patient_doctor_requests :
       r.status \in {"approved", "rejected"}
       => \A q \in patient_doctor_requests' :
            q.id = r.id => q.status = r.status]_vars

\* C6: every relationship row has an approved request row for the same
\* pair, and only an approval inserts a relationship row.
RelationshipHasApprovedRequest ==
  \A l \in patient_doctor_relationships :
    \E r \in RequestsOfPair(l.patient_id, l.doctor_id) :
      r.status = "approved"

OnlyApprovalInserts ==
  patient_doctor_relationships' # patient_doctor_relationships
  => \E s \in Slots : IsApproveCall(call[s]) /\ call'[s] = Idle

C6_RelationshipOnlyByApproval ==
  [](RelationshipHasApprovedRequest) /\ [][OnlyApprovalInserts]_vars

\* C7: rejecting an existing request leaves the relationship rows alone,
\* sets the request's status to rejected with a response timestamp, and
\* adds one notification for the patient that records the reason.
C7_RejectEffect ==
  [][\A s \in Slots :
       (/\ call[s].op = "rejectRequest" /\ call[s].pc = "write"
        /\ call'[s] = Idle)
       => LET rid == call[s].target
              n == Notification(call[s].data[1], "Doctor Request Declined",
                                rid, call[s].arg)
          IN /\ patient_doctor_relationships' = patient_doctor_relationships
             /\ Cardinality(patient_doctor_requests')
                  = Cardinality(patient_doctor_requests)
             /\ \A r \in patient_doctor_requests :
                  IF r.id = rid
                  THEN [r EXCEPT !.status = "rejected",
                                 !.responded_at = "now"]
                         \in patient_doctor_requests'
                  ELSE r \in patient_doctor_requests'
             /\ CopiesIn(n, notifications') = CopiesIn(n, notifications) + 1
             /\ BagCardinality(notifications')
                  = BagCardinality(notifications) + 1
             /\ outcome'.result = "ok"]_vars

C7_Witness ==
  /\ outcome.op = "rejectRequest" /\ outcome.result = "ok"
  /\ outcome.arg = "busy"
  /\ RelationshipsOfPair(outcome.data[1], outcome.data[2]) # {}
  /\ \E r \in RequestsWithId(outcome.target) : r.status = "rejected"
  /\ CopiesIn(Notification(outcome.data[1], "Doctor Request Declined",
                           outcome.target, "busy"), notifications) = 1

\* C8: approveRequest or rejectRequest with an id no request row has
\* fails with a not-found error and changes no table.
C8_UnknownRequestNotFound ==
  [][(/\ IssuedAndCompleted
      /\ IsRespondCall(outcome'.op)
      /\ RequestsWithId(outcome'.target) = {})
     => /\ outcome'.result = "error_request_not_found"
        /\ TablesUnchanged]_vars

C8_Witness ==
  /\ IsRespondCall(outcome.op)
  /\ outcome.result = "error_request_not_found"
  /\ RequestsWithId(outcome.target) = {}
  /\ patient_doctor_requests # {}

\* C9: when a request call has succeeded (and neither notification path
\* has failed), the doctor's inbox holds exactly one unread doctor_request
\* notification about the new request.
C9_ExactlyOneNotification ==
  [][/\ \A s \in Slots :
          (/\ call[s].op = "requestDoctor" /\ call'[s] = Idle
           /\ ~outcome'.notify_failed)
          => InboxCount(notifications', call[s].target, call[s].data) = 1
     /\ (/\ IssuedAndCompleted /\ outcome'.op = "createRequest"
         /\ outcome'.result = "ok" /\ ~outcome'.notify_failed)
        => InboxCount(notifications', outcome'.target, outcome'.data) = 1
    ]_vars

\* C10: a request call fails only for a reason of the insert itself (the
\* caller's role, the pair being taken), never because a notification
\* could not be created; a call that returned ok has its row in the table.
RequestCallFailsOnlyOnInsert ==
  (/\ IssuedAndCompleted
   /\ IsRequestCall(outcome'.op)
   /\ outcome'.result # "ok")
  => \/ ProfileRole(outcome'.caller) # "patient"
     \/ RequestsOfPair(outcome'.caller, outcome'.target) # {}

ReturnedRequestIsCommitted ==
  (IsRequestCall(outcome.op) /\ outcome.result = "ok")
  => \E r \in RequestsOfPair(outcome.caller, outcome.target) :
       r.id = outcome.data

C10_NotificationFailureTolerated ==
  [](ReturnedRequestIsCommitted) /\ [][RequestCallFailsOnlyOnInsert]_vars

C10_Witness ==
  /\ outcome.op = "requestDoctor" /\ outcome.result = "ok"
  /\ outcome.notify_failed
  /\ \E r \in RequestsOfPair(outcome.caller, outcome.target) :
       r.id = outcome.data
  /\ InboxCount(notifications, outcome.target, outcome.data) = 0

\* ================================================= notification inbox
\* The notifications table as the clients of notificationService and of
\* rpc('create_notification') see it.  The primary key of a row only tells
\* equal rows apart: the bag keeps how many there are, and "the id of a
\* row" is one copy of it.

\* rows the notifications table holds in one run
MaxNotifications == 3

\* a uuid that no profile row has (also: a user who has no profile row)
NoProfile == "nobody"
Callers == Profiles \cup {NoProfile}

\* CHECK (type IN (...)) of notifications.type, and a type outside it
NotificationTypes ==
  {"doctor_request", "report_received", "appointment_reminder", "system"}
TypeInputs == {"doctor_request", "system", "promo"}
TitleInputs == {"Note", NULL}

\* NOT NULL and CHECK constraints of a notifications row
NotificationRowValid(row) ==
  row.type \in NotificationTypes /\ row.title # NULL

\* create_notification without its IF NOT EXISTS (SELECT 1 FROM profiles)
create_notification_function_NoTargetCheck(target, type, title) ==
  LET row == [Notification(target, title, NULL, NULL) EXCEPT !.type = type]
  IN IF ~NotificationRowValid(row)
     THEN [id |-> NULL, added |-> EmptyBag]
     ELSE [id |-> "uuid", added |-> SetToBag({row})]

\* create_notification(target_user_id, notification_type,
\* notification_title, ...) RETURNS uuid: the exception it raises for a
\* missing profile and any error of the INSERT end in its EXCEPTION WHEN
\* others clause, which returns NULL; read is written as false.
create_notification_function(target, type, title) ==
  LET row == [Notification(target, title, NULL, NULL) EXCEPT !.type = type]
  IN IF target \notin Profiles
     THEN [id |-> NULL, added |-> EmptyBag]
     ELSE IF ~NotificationRowValid(row)
     THEN [id |-> NULL, added |-> EmptyBag]
     ELSE [id |-> "uuid", added |-> SetToBag({row})]

\* what an inbox call leaves in `outcome`
InboxOutcome(op, c, target, arg, result) ==
  [op |-> op, caller |-> c, target |-> target, arg |-> arg, data |-> NULL,
   notify_failed |-> FALSE, result |-> result]

InboxFrame ==
  UNCHANGED <<patient_doctor_requests, patient_doctor_relationships,
              call, started, outsideInbox>>

\* supabase.rpc('create_notification', ...) by any authenticated caller
rpcCreateNotification(c, target, type, title) ==
  /\ BagCardinality(notifications) < MaxNotifications
  /\ LET out == create_notification_function(target, type, title)
     IN /\ notifications' = notifications (+) out.added
        /\ outcome' = InboxOutcome("create_notification", c, target,
                                   <<type, title>>, out.id)
  /\ InboxFrame

\* policy "Users can update own notifications" (UPDATE USING / WITH CHECK)
UsersCanUpdateOwnNotifications(c, row) ==
  c \in Profiles /\ row.user_id = c

\* UPDATE notifications SET read = true on `copies` copies of row n
SetRead(B, n, copies) ==
  IF copies = 0 \/ n.read THEN B
  ELSE LET rest == [x \in (DOMAIN B) \ {n} |-> B[x]]
           kept == IF B[n] > copies
                   THEN rest @@ (n :> (B[n] - copies)) ELSE rest
       IN kept (+) [x \in {[n EXCEPT !.read = TRUE]} |-> copies]

\* markAsRead with no row-level policy on the update
markAsRead_NoPolicy(c, n) ==
  /\ BagIn(n, notifications)
  /\ notifications' = SetRead(notifications, n, 1)
  /\ outcome' = InboxOutcome("markAsRead", c, n.user_id, n, "ok")
  /\ InboxFrame

\* notificationService.markAsRead(notificationId): UPDATE ... SET read =
\* true WHERE id = notificationId, filtered by the update policy; an
\* update that matches no row is not an error
markAsRead(c, n) ==
  /\ BagIn(n, notifications)
  /\ notifications' =
       IF UsersCanUpdateOwnNotifications(c, n)
       THEN SetRead(notifications, n, 1) ELSE notifications
  /\ outcome' = InboxOutcome("markAsRead", c, n.user_id, n, "ok")
  /\ InboxFrame

RECURSIVE SetReadAll(_, _)
SetReadAll(B, rows) ==
  IF rows = {} THEN B
  ELSE LET n == CHOOSE x \in rows : TRUE
       IN SetReadAll(SetRead(B, n, B[n]), rows \ {n})

\* markAllAsRead without .eq('user_id', profile.id) and without the policy
markAllAsRead_Everyone(c) ==
  /\ notifications' =
       SetReadAll(notifications,
                  {n \in BagToSet(notifications) : ~n.read})
  /\ outcome' = InboxOutcome("markAllAsRead", c, NULL, NULL, "ok")
  /\ InboxFrame

\* notificationService.markAllAsRead(): getCurrentProfile (return when
\* there is none), then UPDATE ... SET read = true WHERE user_id =
\* profile.id AND read = false, filtered by the update policy
markAllAsRead(c) ==
  /\ notifications' =
       IF c \notin Profiles THEN notifications
       ELSE SetReadAll(notifications,
              {n \in BagToSet(notifications) :
                 /\ n.user_id = c /\ ~n.read
                 /\ UsersCanUpdateOwnNotifications(c, n)})
  /\ outcome' = InboxOutcome("markAllAsRead", c, NULL, NULL, "ok")
  /\ InboxFrame

InboxNext ==
  \/ \E c \in Callers, target \in Callers, type \in TypeInputs,
        title \in TitleInputs :
       rpcCreateNotification(c, target, type, title)
  \/ \E c \in Callers, n \in BagToSet(notifications) : markAsRead(c, n)
  \/ \E c \in Callers : markAllAsRead(c)

InboxSpec == Init /\ [][InboxNext]_vars

\* ------------------------------------------------ inbox properties
\* the rows of B addressed to `user`
InboxOf(B, user) == {n \in BagToSet(B) : n.user_id = user}

\* this step added exactly one row, unread and addressed to `user`
AddedOneUnreadRowFor(user) ==
  \E n \in InboxOf(notifications', user) :
    ~n.read /\ notifications' = notifications (+) SetToBag({n})

\* C11 as stated: create_notification adds exactly one unread row for the
\* target whenever the target profile exists, and adds no row and returns
\* no id when it does not.
C11_OneRowIffTargetExists ==
  [][outcome'.op = "create_notification"
     => IF outcome'.target \in Profiles
        THEN AddedOneUnreadRowFor(outcome'.target) /\ outcome'.result # NULL
        ELSE notifications' = notifications /\ outcome'.result = NULL]_vars

\* C11 amended: create_notification adds exactly one unread row for the
\* target and returns its id when the target profile exists and the row
\* meets the table's constraints (an allowed type, a title); in every
\* other case it adds no row and returns no id.
C11_OneRowIffTargetExistsAndRowValid ==
  [][outcome'.op = "create_notification"
     => IF /\ outcome'.target \in Profiles
           /\ outcome'.arg[1] \in NotificationTypes
           /\ outcome'.arg[2] # NULL
        THEN AddedOneUnreadRowFor(outcome'.target) /\ outcome'.result # NULL
        ELSE notifications' = notifications /\ outcome'.result = NULL]_vars

C11_Witness ==
  /\ outcome.op = "create_notification"
  /\ outcome.target = NoProfile /\ outcome.result = NULL
  /\ outcome.arg[1] \in NotificationTypes /\ outcome.arg[2] # NULL
  /\ \E n \in BagToSet(notifications) : ~n.read /\ n.type = "system"

\* number of rows of B among `rows`
RECURSIVE CountRows(_, _)
CountRows(B, rows) ==
  IF rows = {} THEN 0
  ELSE LET n == CHOOSE x \in rows : TRUE
       IN CopiesIn(n, B) + CountRows(B, rows \ {n})

Unread(B, user) == {n \in InboxOf(B, user) : ~n.read}

\* the rows of every user but `user` are as they were
OthersUntouched(user) ==
  \A n \in BagToSet(notifications) \cup BagToSet(notifications') :
    n.user_id # user
    => CopiesIn(n, notifications') = CopiesIn(n, notifications)

\* C12: after markAllAsRead by a user, that user has no unread
\* notification; each of the user's rows is still there, read (the rows
\* that were read already among them); every other user's rows are as
\* they were.
C12_MarkAllAsRead ==
  [][outcome'.op = "markAllAsRead"
     => LET u == outcome'.caller
        IN /\ Unread(notifications', u) = {}
           /\ \A n \in InboxOf(notifications, u) \cup
                       InboxOf(notifications', u) :
                n.read
                => CopiesIn(n, notifications')
                     = CopiesIn(n, notifications)
                       + CopiesIn([n EXCEPT !.read = FALSE], notifications)
           /\ OthersUntouched(u)]_vars

C12_Witness ==
  /\ outcome.op = "markAllAsRead" /\ outcome.caller \in Profiles
  /\ Unread(notifications, outcome.caller) = {}
  /\ CountRows(notifications, InboxOf(notifications, outcome.caller)) = 2
  /\ \E n \in BagToSet(notifications) :
       n.user_id # outcome.caller /\ ~n.read

\* C13: a markAsRead or markAllAsRead call by user A changes no row that
\* is addressed to another user B, whichever notification id A passes.
C13_ReadFlagOwnerOnly ==
  [][outcome'.op \in {"markAsRead", "markAllAsRead"}
     => OthersUntouched(outcome'.caller)]_vars

C13_Witness ==
  /\ outcome.op = "markAsRead"
  /\ outcome.caller \in Profiles /\ outcome.target \in Profiles
  /\ outcome.caller # outcome.target
  /\ ~outcome.arg.read /\ BagIn(outcome.arg, notifications)
  /\ \E n \in InboxOf(notifications, outcome.caller) : n.read

\* ======================================================= chat sessions
\* chatHistoryService over the chat_sessions table.  A row is
\* [id, patient_id, messages, last_message_at]; messages is the jsonb
\* array, last_message_at the client's new Date() at the time of writing.

\* rows the chat_sessions table holds in one run
MaxSessions == 2
\* createNewSession and saveMessage calls issued in one run
MaxChatCalls == 4

SessionIds == 1..MaxSessions

\* a property a ChatMessage object does not define
Undefined == "undefined"

\* ChatMessage objects a caller passes (audioUrl is optional)
ChatMessages ==
  {[id |-> "m1", type |-> "user", content |-> "hi", audioUrl |-> Undefined],
   [id |-> "m2", type |-> "ai", content |-> "hello", audioUrl |-> "a.mp3"]}

\* JSON.stringify of an object, as the request body carries it: a property
\* whose value is undefined is left out
JsonStringify(m) ==
  [k \in {x \in DOMAIN m : m[x] # Undefined} |-> m[k]]

\* reading property k of a parsed JSON object
Property(obj, k) == IF k \in DOMAIN obj THEN obj[k] ELSE Undefined

\* policy "Patients can manage own chat sessions" (FOR ALL)
PatientsCanManageOwnChatSessions(c, row) ==
  c \in Profiles /\ row.patient_id = c /\ ProfileRole(c) = "patient"

SessionsWithId(sid) == {r \in chat_sessions : r.id = sid}
SessionsOf(c) == {r \in chat_sessions : r.patient_id = c}
NewSessionId == Cardinality(chat_sessions) + 1

\* the rows .eq('id', sid) selects for caller c
VisibleSessions(c, sid) ==
  {r \in SessionsWithId(sid) : PatientsCanManageOwnChatSessions(c, r)}

ChatIssue(s) ==
  /\ call[s] = Idle
  /\ \A t \in Slots : t < s => call[t] # Idle
  /\ started < MaxChatCalls
  /\ started' = started + 1

ChatFrame ==
  UNCHANGED <<patient_doctor_requests, patient_doctor_relationships,
              notifications, videoVars, aiVars, appVars>>

\* chatHistoryService.createNewSession: the role check, then one INSERT
\* with messages: [] and last_message_at: new Date()
createNewSession(s, c) ==
  /\ ChatIssue(s)
  /\ IF c \notin Profiles \/ ProfileRole(c) # "patient"
     THEN /\ Complete(s, Begin("createNewSession", "insert", c, NULL, NULL,
                               NULL), "error_only_patients")
          /\ UNCHANGED chatVars
     ELSE /\ Cardinality(chat_sessions) < MaxSessions
          /\ LET row == [id |-> NewSessionId, patient_id |-> c,
                         messages |-> << >>, last_message_at |-> clock + 1]
             IN /\ chat_sessions' = chat_sessions \cup {row}
                /\ clock' = clock + 1
                /\ chat_history' =
                     chat_history @@
                     (row.id :> [saved |-> << >>, sequential |-> TRUE])
                /\ Complete(s, Begin("createNewSession", "insert", c,
                                     row.id, NULL, NULL), "ok")
  /\ ChatFrame

\* another saveMessage call for session sid is between its read and its
\* write
SaveInFlight(sid) ==
  \E t \in Slots : call[t].op = "saveMessage" /\ call[t].target = sid

\* chatHistoryService.saveMessage, first round trip: SELECT messages ...
\* .eq('id', sessionId).single(); no visible row is an error, rethrown
saveMessage(s, c, sid, m) ==
  /\ ChatIssue(s)
  /\ LET found == VisibleSessions(c, sid)
         rec == Begin("saveMessage", "stamp", c, sid, m, NULL)
     IN IF found = {}
        THEN /\ Complete(s, rec, "error_no_rows")
             /\ chat_history' = chat_history
        ELSE LET r == CHOOSE x \in found : TRUE
             IN /\ Proceed(s, [rec EXCEPT !.data =
                                  [read |-> r.messages, messages |-> NULL,
                                   last_message_at |-> NULL]])
                /\ chat_history' =
                     IF SaveInFlight(sid)
                     THEN [chat_history EXCEPT ![sid].sequential = FALSE]
                     ELSE chat_history
  /\ UNCHANGED <<chat_sessions, clock>>
  /\ ChatFrame

\* saveMessage building [message, ...session.messages]
saveMessageStamp_Prepend(s) ==
  /\ call[s].op = "saveMessage" /\ call[s].pc = "stamp"
  /\ clock' = clock + 1
  /\ Proceed(s, [call[s] EXCEPT
                   !.pc = "update",
                   !.data.messages =
                     <<JsonStringify(call[s].arg)>> \o call[s].data.read,
                   !.data.last_message_at = clock + 1])
  /\ UNCHANGED <<chat_sessions, chat_history, started>>
  /\ ChatFrame

\* the response arrives: updatedMessages = [...(session.messages || []),
\* message] and last_message_at: new Date() are computed and sent
saveMessageStamp(s) ==
  /\ call[s].op = "saveMessage" /\ call[s].pc = "stamp"
  /\ clock' = clock + 1
  /\ Proceed(s, [call[s] EXCEPT
                   !.pc = "update",
                   !.data.messages =
                     Append(call[s].data.read, JsonStringify(call[s].arg)),
                   !.data.last_message_at = clock + 1])
  /\ UNCHANGED <<chat_sessions, chat_history, started>>
  /\ ChatFrame

\* an update that appended on the server: messages = messages || message
saveMessageUpdate_ServerAppend(s) ==
  /\ call[s].op = "saveMessage" /\ call[s].pc = "update"
  /\ LET sid == call[s].target
         matched == VisibleSessions(call[s].caller, sid)
     IN /\ chat_sessions' =
             {IF r \in matched
              THEN [r EXCEPT !.messages =
                               Append(@, JsonStringify(call[s].arg)),
                             !.last_message_at =
                               call[s].data.last_message_at]
              ELSE r : r \in chat_sessions}
        /\ chat_history' =
             [chat_history EXCEPT ![sid].saved = Append(@, call[s].arg)]
  /\ Complete(s, call[s], "ok")
  /\ UNCHANGED <<clock, started>>
  /\ ChatFrame

\* second round trip: UPDATE chat_sessions SET messages = updatedMessages,
\* last_message_at = ... WHERE id = sessionId, filtered by the policy
saveMessageUpdate(s) ==
  /\ call[s].op = "saveMessage" /\ call[s].pc = "update"
  /\ LET sid == call[s].target
         matched == VisibleSessions(call[s].caller, sid)
     IN /\ chat_sessions' =
             {IF r \in matched
              THEN [r EXCEPT !.messages = call[s].data.messages,
                             !.last_message_at =
                               call[s].data.last_message_at]
              ELSE r : r \in chat_sessions}
        /\ chat_history' =
             [chat_history EXCEPT ![sid].saved = Append(@, call[s].arg)]
  /\ Complete(s, call[s], "ok")
  /\ UNCHANGED <<clock, started>>
  /\ ChatFrame

\* what a read of the chat tables leaves in `outcome`; data says whether
\* the round trip itself failed
ChatOutcome(op, c, target, data, result) ==
  [op |-> op, caller |-> c, target |-> target, arg |-> NULL, data |-> data,
   notify_failed |-> FALSE, result |-> result]

ReadFrame ==
  /\ UNCHANGED <<call, started, chatVars>>
  /\ ChatFrame

\* chatHistoryService.getSession: SELECT * ... .eq('id', sessionId)
\* .single(); every error is caught and null is returned
getSession(c, sid) ==
  /\ \E fault \in BOOLEAN :
       LET found == VisibleSessions(c, sid)
       IN outcome' =
            IF fault
            THEN ChatOutcome("getSession", c, sid, "failed", NULL)
            ELSE IF found = {}
            THEN ChatOutcome("getSession", c, sid, "no_rows", NULL)
            ELSE ChatOutcome("getSession", c, sid, "ok",
                             CHOOSE x \in found : TRUE)
  /\ ReadFrame

\* .eq('patient_id', profile.id).order('last_message_at', { ascending:
\* false }).limit(1): the rows that can come first
CurrentSessions(rows, c) ==
  LET own == {r \in rows : r.patient_id = c
                /\ PatientsCanManageOwnChatSessions(c, r)}
  IN {r \in own : \A q \in own : q.last_message_at <= r.last_message_at}

\* chatHistoryService.getCurrentSession: null for a caller who is no
\* patient, null on an error, else the first row (maybeSingle)
getCurrentSession(c) ==
  /\ \E fault \in BOOLEAN :
       IF c \notin Profiles \/ ProfileRole(c) # "patient"
       THEN outcome' = ChatOutcome("getCurrentSession", c, NULL,
                                   "no_patient", NULL)
       ELSE IF fault
       THEN outcome' = ChatOutcome("getCurrentSession", c, NULL,
                                   "failed", NULL)
       ELSE IF CurrentSessions(chat_sessions, c) = {}
       THEN outcome' = ChatOutcome("getCurrentSession", c, NULL, "ok", NULL)
       ELSE \E r \in CurrentSessions(chat_sessions, c) :
              outcome' = ChatOutcome("getCurrentSession", c, NULL, "ok", r)
  /\ ReadFrame

ChatNext ==
  \/ \E s \in Slots, c \in Callers : createNewSession(s, c)
  \/ \E s \in Slots, c \in Callers, sid \in SessionIds, m \in ChatMessages :
       saveMessage(s, c, sid, m)
  \/ \E s \in Slots : saveMessageStamp(s)
  \/ \E s \in Slots : saveMessageUpdate(s)
  \/ \E c \in Callers, sid \in SessionIds : getSession(c, sid)
  \/ \E c \in Callers : getCurrentSession(c)

ChatSpec == Init /\ [][ChatNext]_vars

\* ------------------------------------------------- chat properties
MessageKeys == {"id", "type", "content", "audioUrl"}

\* two message objects have the same value for every property
SameContent(a, b) ==
  \A k \in MessageKeys : Property(a, k) = Property(b, k)

SameMessages(got, sent) ==
  /\ Len(got) = Len(sent)
  /\ \A i \in 1..Len(sent) : SameContent(got[i], sent[i])

\* C14: when the saveMessage calls made on a session so far did not
\* overlap, getSession by the owner returns the messages of the completed
\* calls, in the order saved and with the same content.
C14_SaveThenGetRoundTrip ==
  [][(outcome'.op = "getSession" /\ outcome'.data = "ok"
      /\ chat_history[outcome'.target].sequential)
     => SameMessages(outcome'.result.messages,
                     chat_history[outcome'.target].saved)]_vars

C14_Witness ==
  /\ outcome.op = "getSession" /\ outcome.data = "ok"
  /\ chat_history[outcome.target].sequential
  /\ Len(outcome.result.messages) = 2
  /\ "audioUrl" \notin DOMAIN outcome.result.messages[1]
  /\ outcome.result.messages[2].id # outcome.result.messages[1].id
  /\ call = [s \in Slots |-> Idle]

\* C15: the write of a saveMessage call replaces the log by the log that
\* call read plus its own message, whatever was written in between (no
\* compare-and-swap): of two calls that both read before either writes,
\* only the message of the one that writes last is in the final log.
C15_LastWriteWins ==
  [][\A s \in Slots :
       (/\ call[s].op = "saveMessage" /\ call[s].pc = "update"
        /\ call'[s] = Idle)
       => \A r \in chat_sessions' :
            r.id = call[s].target
            => r.messages = Append(call[s].data.read,
                                   JsonStringify(call[s].arg))]_vars

\* a lost update: two saveMessage calls on a session have completed and
\* its log holds one message
C15_Witness ==
  \E r \in chat_sessions :
    /\ Len(chat_history[r.id].saved) = 2
    /\ ~chat_history[r.id].sequential
    /\ Len(r.messages) = 1
    /\ call = [s \in Slots |-> Idle]

\* C16: getCurrentSession returns to a patient one of the patient's
\* sessions with the greatest last_message_at, and null when there is
\* none; and when a saveMessage call on session s has completed, s is the
\* session getCurrentSession returns.
CurrentIsLatest ==
  (outcome'.op = "getCurrentSession" /\ outcome'.data = "ok")
  => IF SessionsOf(outcome'.caller) = {}
     THEN outcome'.result = NULL
     ELSE /\ outcome'.result \in SessionsOf(outcome'.caller)
          /\ \A q \in SessionsOf(outcome'.caller) :
               q.last_message_at <= outcome'.result.last_message_at

SavedSessionIsCurrent ==
  \A s \in Slots :
    (/\ call[s].op = "saveMessage" /\ call[s].pc = "update"
     /\ call'[s] = Idle)
    => \A r \in CurrentSessions(chat_sessions', call[s].caller) :
         r.id = call[s].target

C16_CurrentSession ==
  [][CurrentIsLatest /\ SavedSessionIsCurrent]_vars

\* ================================================= video consultation
\* TavusService (tavusService.ts) and the TavusVideoConsultation component
\* that drives it.  A string whose beginning matters is a sequence of
\* characters (and, for a generated id, the digits of Date.now() that
\* end it).

\* startConsultation, endConsultation and direct service calls in one run
MaxVideoCalls == 3

\* import.meta.env.VITE_TAVUS_API_KEY: undefined, the placeholder of the
\* example environment file, or a real key
ApiKeys == {NULL, "your_tavus_api_key_here", "key"}

\* TavusService.isConfigured
isConfigured(key) == key # NULL /\ key # "your_tavus_api_key_here"

\* String.prototype.startsWith
StartsWith(str, prefix) ==
  Len(str) >= Len(prefix) /\ SubSeq(str, 1, Len(prefix)) = prefix

MockPrefix == <<"m", "o", "c", "k", "_">>
FallbackPrefix == <<"f", "a", "l", "l", "b", "a", "c", "k", "_">>

\* `${window.location.origin}/mock-tavus-conversation`
PlaceholderUrl == "origin/mock-tavus-conversation"

\* an id the vendor gives a conversation it created
VendorId == <<"c", "7", "f">>

\* the conversation objects createConversation builds locally
LocalConversation(prefix, now) ==
  [conversation_id |-> prefix \o <<ToString(now)>>, status |-> "active",
   conversation_url |-> PlaceholderUrl]

Fetch(method, path, id) == [method |-> method, path |-> path, id |-> id]

\* what the vendor answers to GET /v2/personas and to POST
\* /v2/conversations
PersonasResponses == {"error", "none", "default", "other"}
PostResponses ==
  {"network_error", "http_error", "invalid_json", "null", "no_id", "ok"}

\* the skip test of updateConversationContext, sendMessage,
\* endConversation and getConversationStatus
SkipsVendor(key, id) ==
  \/ ~isConfigured(key)
  \/ StartsWith(id, MockPrefix)
  \/ StartsWith(id, FallbackPrefix)

ServiceMethods ==
  {"updateConversationContext", "sendMessage", "endConversation",
   "getConversationStatus"}

\* the request each method sends when it does not skip
MethodFetch(method, id) ==
  CASE method = "updateConversationContext" -> Fetch("PUT", "context", id)
    [] method = "sendMessage" -> Fetch("POST", "messages", id)
    [] method = "endConversation" -> Fetch("DELETE", "conversation", id)
    [] method = "getConversationStatus" -> Fetch("GET", "conversation", id)

\* one of the four methods: every error is caught; the three void methods
\* resolve, getConversationStatus resolves to 'active' when it skips, to
\* the vendor's status or 'error' otherwise
tavusCall(method, key, id, vendorOk) ==
  IF SkipsVendor(key, id)
  THEN [result |-> IF method = "getConversationStatus"
                   THEN "active" ELSE "void",
        fetches |-> << >>]
  ELSE [result |-> IF method # "getConversationStatus" THEN "void"
                   ELSE IF vendorOk THEN "vendor_status" ELSE "error",
        fetches |-> <<MethodFetch(method, id)>>]

\* the try block of createConversation: the mock for a missing key, else
\* getPersonas, the POST, the parse of its answer and the context update
createConversationTry(key, now, personas, post) ==
  IF ~isConfigured(key)
  THEN [threw |-> FALSE, value |-> LocalConversation(MockPrefix, now),
        fetches |-> << >>]
  ELSE LET personaId == IF personas = "other" THEN "first_persona"
                        ELSE "p9863a04af01"
           sent == <<Fetch("GET", "personas", NULL),
                     Fetch("POST", "conversations", personaId)>>
       IN IF post \in {"network_error", "http_error", "invalid_json",
                       "null"}
          THEN [threw |-> TRUE, value |-> NULL, fetches |-> sent]
          ELSE IF post = "no_id"
          THEN [threw |-> FALSE,
                value |-> [conversation_id |-> UndefinedId,
                           status |-> Undefined,
                           conversation_url |-> Undefined],
                fetches |-> sent]
          ELSE [threw |-> FALSE,
                value |-> [conversation_id |-> VendorId,
                           status |-> "active",
                           conversation_url |-> "vendor_url"],
                fetches |->
                  sent \o tavusCall("updateConversationContext", key,
                                    VendorId, TRUE).fetches]

\* a createConversation promise that rejects
Rejected ==
  [conversation_id |-> NullId, status |-> "rejected",
   conversation_url |-> NULL]

\* createConversation without its catch block
createConversation_NoCatch(key, now, personas, post) ==
  LET t == createConversationTry(key, now, personas, post)
  IN IF t.threw
     THEN [resolved |-> FALSE, value |-> NULL, fetches |-> t.fetches]
     ELSE [resolved |-> TRUE, value |-> t.value, fetches |-> t.fetches]

\* TavusService.createConversation: the catch block turns every error of
\* the try block into the fallback conversation
createConversation(key, now, personas, post) ==
  LET t == createConversationTry(key, now, personas, post)
  IN IF t.threw
     THEN [resolved |-> TRUE,
           value |-> LocalConversation(FallbackPrefix, now),
           fetches |-> t.fetches]
     ELSE [resolved |-> TRUE, value |-> t.value, fetches |-> t.fetches]

\* ---------------------------------------- TavusVideoConsultation
\* the Error setupUserMedia throws, as its words
PermissionMessage ==
  <<"Unable", "to", "access", "camera", "and", "microphone.", "Please",
    "check", "your", "permissions", "and", "try", "again.">>

\* err.message.includes(word)
Includes(message, word) == \E i \in 1..Len(message) : message[i] = word

\* the message the catch block of startConsultation shows
ErrorMessage(message) ==
  IF Includes(message, "API") /\ Includes(message, "key")
  THEN <<"Tavus", "API", "key", "not", "configured.">>
  ELSE IF Includes(message, "persona")
  THEN <<"Dr.", "Ava", "persona", "not", "found.">>
  ELSE message

VideoIssue ==
  /\ started < MaxVideoCalls
  /\ started' = started + 1

VideoFrame ==
  UNCHANGED <<patient_doctor_requests, patient_doctor_relationships,
              notifications, call, chat_sessions, chat_history, api_key,
              aiVars, appVars>>

\* what a call of the video service leaves in `outcome`
VideoOutcome(op, id, arg, result) ==
  [op |-> op, caller |-> NULL, target |-> id, arg |-> arg, data |-> NULL,
   notify_failed |-> FALSE, result |-> result]

\* the "Start" button (shown while neither connecting nor connected):
\* startConsultation up to its await setupUserMedia()
startConsultation ==
  /\ ~consultation.isConnected /\ ~consultation.isConnecting
  /\ VideoIssue
  /\ consultation' =
       [consultation EXCEPT !.isConnecting = TRUE,
                            !.connectionStatus = "connecting",
                            !.error = NULL, !.pc = "media",
                            !.attempt = [media |-> "pending",
                                         created |-> FALSE]]
  /\ UNCHANGED <<outcome, clock, fetches>>
  /\ VideoFrame

\* getUserMedia resolves: setHasUserMedia(true), the demo-mode notice, and
\* createConversation is called
setupUserMediaResolved ==
  /\ consultation.pc = "media"
  /\ consultation' =
       [consultation EXCEPT
          !.hasUserMedia = TRUE,
          !.error = IF isConfigured(api_key) THEN @
                    ELSE <<"Tavus", "API", "not", "configured.", "Using",
                           "demo", "mode.">>,
          !.pc = "create",
          !.attempt.media = "granted",
          !.streamRef = "live"]
  /\ UNCHANGED <<outcome, clock, fetches, started>>
  /\ VideoFrame

\* the catch block of startConsultation
ConsultationFailed(message) ==
  [consultation EXCEPT !.error = ErrorMessage(message),
                       !.isConnecting = FALSE,
                       !.connectionStatus = "error", !.pc = "idle"]

\* a rejected getUserMedia that is logged and ignored
setupUserMediaRejected_Ignored ==
  /\ consultation.pc = "media"
  /\ consultation' = [consultation EXCEPT !.pc = "create",
                                          !.attempt.media = "denied"]
  /\ UNCHANGED <<outcome, clock, fetches, started>>
  /\ VideoFrame

\* getUserMedia rejects: setupUserMedia throws its Error and
\* startConsultation goes to its catch block
setupUserMediaRejected ==
  /\ consultation.pc = "media"
  /\ consultation' =
       [ConsultationFailed(PermissionMessage) EXCEPT
          !.attempt.media = "denied"]
  /\ UNCHANGED <<outcome, clock, fetches, started>>
  /\ VideoFrame

\* await tavusService.createConversation() and the rest of the try block:
\* the id and the url are stored, the context update is started without
\* being awaited, and the 3 s timer is set
createConversationResolved ==
  /\ consultation.pc = "create"
  /\ \E personas \in PersonasResponses, post \in PostResponses :
       LET out == createConversation(api_key, clock + 1, personas, post)
           conv == out.value
           extra == IF out.resolved /\ conv.conversation_id # UndefinedId
                    THEN tavusCall("updateConversationContext", api_key,
                                   conv.conversation_id, TRUE).fetches
                    ELSE << >>
       IN /\ fetches' = fetches \o out.fetches \o extra
          /\ outcome' = VideoOutcome("createConversation", NullId, post,
                                     IF out.resolved THEN conv
                                     ELSE Rejected)
          /\ consultation' =
               IF ~out.resolved
               THEN [ConsultationFailed(<<"Tavus", "API", "error">>) EXCEPT
                       !.attempt.created = TRUE]
               ELSE [consultation EXCEPT
                       !.conversationId = conv.conversation_id,
                       !.conversationUrl =
                          IF conv.conversation_url # Undefined
                          THEN conv.conversation_url ELSE @,
                       !.pc = "timer",
                       !.attempt.created = TRUE]
  /\ clock' = clock + 1
  /\ UNCHANGED started
  /\ VideoFrame

\* the setTimeout callback of startConsultation
connectionTimer ==
  /\ consultation.pc = "timer"
  /\ consultation' = [consultation EXCEPT !.isConnecting = FALSE,
                                          !.isConnected = TRUE,
                                          !.connectionStatus = "connected",
                                          !.pc = "idle"]
  /\ UNCHANGED <<outcome, clock, fetches, started>>
  /\ VideoFrame

\* the close button: endConversation for the stored id, the tracks are
\* stopped and streamRef cleared, then the reset
endConsultation ==
  /\ VideoIssue
  /\ IF consultation.conversationId \notin {NullId, UndefinedId}
     THEN LET out == tavusCall("endConversation", api_key,
                               consultation.conversationId, TRUE)
          IN /\ fetches' = fetches \o out.fetches
             /\ outcome' = VideoOutcome("endConversation",
                                        consultation.conversationId, NULL,
                                        out.result)
     ELSE UNCHANGED <<fetches, outcome>>
  /\ consultation' = [consultation EXCEPT !.isConnected = FALSE,
                                          !.connectionStatus = "idle",
                                          !.hasUserMedia = FALSE,
                                          !.streamRef = "none"]
  /\ UNCHANGED clock
  /\ VideoFrame

\* useEffect(..., [conversationId]): after a render in which
\* conversationId changed, the cleanup of the previous effect runs (it
\* stops the tracks of streamRef.current and ends the conversation it
\* closed over) and the effect is mounted again
conversationIdEffect ==
  /\ consultation.conversationId # consultation.effectId
  /\ fetches' =
       IF consultation.effectId \notin {NullId, UndefinedId}
       THEN fetches \o tavusCall("endConversation", api_key,
                                 consultation.effectId, TRUE).fetches
       ELSE fetches
  /\ consultation' =
       [consultation EXCEPT
          !.streamRef = IF @ = "none" THEN "none" ELSE "stopped",
          !.effectId = consultation.conversationId]
  /\ UNCHANGED <<outcome, clock, started>>
  /\ VideoFrame

\* conversation ids a caller of the service passes
IdInputs ==
  {MockPrefix \o <<"1">>, FallbackPrefix \o <<"1">>, VendorId,
   <<"m", "o", "c", "k">>}

\* a call of one of the four methods of tavusService
serviceCall(method, id, vendorOk) ==
  /\ VideoIssue
  /\ LET out == tavusCall(method, api_key, id, vendorOk)
     IN /\ fetches' = fetches \o out.fetches
        /\ outcome' = VideoOutcome(method, id, NULL, out.result)
  /\ UNCHANGED <<consultation, clock>>
  /\ VideoFrame

VideoInit ==
  /\ TablesInit
  /\ api_key \in ApiKeys
  /\ fetches = << >>
  /\ consultation = Unstarted
  /\ gemini = NoAiCall
  /\ AppInit

VideoNext ==
  \/ startConsultation
  \/ setupUserMediaResolved
  \/ setupUserMediaRejected
  \/ createConversationResolved
  \/ connectionTimer
  \/ endConsultation
  \/ conversationIdEffect
  \/ \E method \in ServiceMethods, vendorOk \in BOOLEAN,
        id \in IdInputs \cup
               ({consultation.conversationId} \ {NullId, UndefinedId}) :
       serviceCall(method, id, vendorOk)

VideoSpec == VideoInit /\ [][VideoNext]_vars

\* ------------------------------------------------- video properties
IsLocalId(id) == StartsWith(id, MockPrefix) \/ StartsWith(id, FallbackPrefix)

VendorFailed(post) ==
  post \in {"network_error", "http_error", "invalid_json", "null"}

\* this step is the completion of a createConversation call
CreateConversationStep ==
  consultation.pc = "create" /\ consultation'.pc # "create"

\* C17: createConversation always resolves; without a usable key it
\* returns a mock_ id and the placeholder url, when the vendor call fails
\* a fallback_ id and the placeholder url; and a later endConversation,
\* sendMessage, updateConversationContext or getConversationStatus call
\* with a mock_ or fallback_ id resolves without sending a request.
C17_FallbackConversation ==
  [][/\ CreateConversationStep
        => LET conv == outcome'.result
           IN /\ conv.status # "rejected"
              /\ ~isConfigured(api_key)
                 => /\ StartsWith(conv.conversation_id, MockPrefix)
                    /\ conv.conversation_url = PlaceholderUrl
                    /\ fetches' = fetches
              /\ (isConfigured(api_key) /\ VendorFailed(outcome'.arg))
                 => /\ StartsWith(conv.conversation_id, FallbackPrefix)
                    /\ conv.conversation_url = PlaceholderUrl
     /\ (/\ ~CreateConversationStep
         /\ outcome'.op \in ServiceMethods
         /\ started' = started + 1
         /\ IsLocalId(outcome'.target))
        => /\ fetches' = fetches
           /\ outcome'.result \in {"void", "active"}]_vars

C17_Witness ==
  /\ isConfigured(api_key)
  /\ outcome.op = "endConversation"
  /\ StartsWith(outcome.target, FallbackPrefix)
  /\ outcome.target = consultation.conversationId
  /\ consultation.conversationUrl = PlaceholderUrl
  /\ Len(fetches) = 2
  /\ \A i \in 1..Len(fetches) : fetches[i].method \in {"GET", "POST"}

\* C18: createConversation is called in an attempt only after the media
\* capture of that attempt succeeded; when the capture fails the attempt
\* ends in the error state showing the permission message, it sets no
\* conversationId and sends nothing to the vendor.
CreatedOnlyAfterMedia ==
  /\ consultation.attempt.created => consultation.attempt.media = "granted"
  /\ consultation.attempt.media = "denied" => consultation.pc = "idle"

MediaFailureAborts ==
  (consultation.pc = "media" /\ consultation'.attempt.media = "denied")
  => /\ consultation'.connectionStatus = "error"
     /\ consultation'.error = PermissionMessage
     /\ Includes(consultation'.error, "permissions")
     /\ consultation'.conversationId = consultation.conversationId
     /\ consultation'.pc = "idle" /\ ~consultation'.isConnecting
     /\ fetches' = fetches
     /\ outcome' = outcome

C18_MediaBeforeVendor ==
  [](CreatedOnlyAfterMedia) /\ [][MediaFailureAborts]_vars

C18_Witness ==
  /\ isConfigured(api_key)
  /\ consultation.attempt.media = "denied"
  /\ consultation.connectionStatus = "error"
  /\ consultation.error = PermissionMessage
  /\ consultation.conversationId = NullId
  /\ fetches = << >>

\* C26: from the moment startConsultation has acquired the local media
\* stream until endConsultation is called, the stream's tracks stay live:
\* no other code path stops them, in particular not the change of
\* conversationId from null to the new id.
TracksStoppedOnlyByEnd ==
  (consultation.streamRef = "live" /\ consultation'.streamRef # "live")
  => /\ started' = started + 1
     /\ consultation'.streamRef = "none"
     /\ consultation'.connectionStatus = "idle"
     /\ ~consultation'.hasUserMedia

C26_TracksStayLive == [][TracksStoppedOnlyByEnd]_vars

\* ------------------------------------------- AI assistant (geminiService)
\* A text is a TLA+ string where only its identity matters (user messages,
\* answers, the canned replies), a sequence of characters where its prefix
\* matters (the base64 payload) and a sequence of words where the code
\* searches it (error messages).

\* String.prototype.trim
Whitespace == {" ", "\t", "\n"}

RECURSIVE trimStart(_)
trimStart(str) ==
  IF Len(str) > 0 /\ Head(str) \in Whitespace
  THEN trimStart(Tail(str)) ELSE str

RECURSIVE trimEnd(_)
trimEnd(str) ==
  IF Len(str) > 0 /\ str[Len(str)] \in Whitespace
  THEN trimEnd(SubSeq(str, 1, Len(str) - 1)) ELSE str

trim(str) == trimEnd(trimStart(str))

\* the base64 headers analyzeImage looks for
JpegSignature == <<"/", "9", "j", "/">>
PngSignature == <<"i", "V", "B", "O", "R", "w", "0", "K", "G", "g", "o">>
GifSignature == <<"R", "0", "l", "G", "O", "D">>
WebpSignature == <<"U", "k", "l", "G", "R">>

\* base64 payloads handed to analyzeImage: every header alone, followed by
\* data, cut one character short, behind a leading blank and in another
\* case; payloads with no header; blank payloads
Payloads ==
  LET headers == {JpegSignature, PngSignature, GifSignature, WebpSignature}
  IN headers
     \cup {h \o <<"A", "=">> : h \in headers}
     \cup {SubSeq(h, 1, Len(h) - 1) : h \in headers}
     \cup {<<" ">> \o h : h \in headers}
     \cup {<<"r", "0", "l", "G", "O", "D">>, <<"A", "B">>, <<"Q">>}
     \cup {<< >>, <<" ">>, <<" ", "\n">>}

UserMessages == {"", "what is this rash?"}

\* conversationHistory as ChatInterface passes it (its replies carry the
\* role 'assistant') and as GeminiMessage declares it
Histories ==
  {<< >>,
   <<[role |-> "user", parts |-> "hello"],
     [role |-> "assistant", parts |-> "hi"]>>,
   <<[role |-> "model", parts |-> "hi"]>>}

\* what model.generateContent, result.response and response.text() can do:
\* deliver a text, reject (network, authentication, quota), or throw in
\* text() for an answer blocked by the content-safety filter
VendorAnswers ==
  {[kind |-> "text", text |-> "advice", message |-> << >>],
   [kind |-> "rejected", text |-> NULL,
    message |-> <<"Failed", "to", "fetch">>],
   [kind |-> "rejected", text |-> NULL,
    message |-> <<"API", "key", "not", "valid">>],
   [kind |-> "rejected", text |-> NULL,
    message |-> <<"quota", "exceeded">>],
   [kind |-> "rejected", text |-> NULL,
    message |-> <<"rate", "limit", "reached">>],
   [kind |-> "textThrows", text |-> NULL,
    message |-> <<"blocked", "due", "to", "safety">>]}

\* the prompt generateResponse builds: the system prompt with its two
\* optional notes, the history under its heading, the patient's message
RECURSIVE historyLines(_)
historyLines(conversationHistory) ==
  IF conversationHistory = << >> THEN << >>
  ELSE LET msg == Head(conversationHistory)
           role == IF msg.role = "model" THEN "Dr. Ava" ELSE "Patient"
       IN <<role, msg.parts>> \o historyLines(Tail(conversationHistory))

conversationContext(userMessage, history, hasImage, isVoiceMessage) ==
  <<"systemPrompt",
    IF hasImage THEN "The user has shared an image." ELSE "",
    IF isVoiceMessage THEN "The user sent a voice message." ELSE "">>
  \o (IF Len(history) > 0
      THEN <<"Previous conversation:">> \o historyLines(history)
      ELSE << >>)
  \o <<"Patient", userMessage, "Dr. Ava:">>

\* the try block of generateResponse
generateResponseTry(userMessage, history, hasImage, isVoiceMessage, answer) ==
  [threw |-> answer.kind # "text", value |-> answer.text,
   message |-> answer.message,
   requests |-> <<[contents |-> conversationContext(userMessage, history,
                                                    hasImage,
                                                    isVoiceMessage)]>>]

FallbackApology ==
  "I apologize, but I'm experiencing technical difficulties right now. For immediate medical concerns, please contact your healthcare provider or emergency services. I'll be back to assist you shortly."

\* generateResponse without its catch block
generateResponse_NoCatch(userMessage, history, hasImage, isVoiceMessage, answer) ==
  LET t == generateResponseTry(userMessage, history, hasImage,
                               isVoiceMessage, answer)
  IN [resolved |-> ~t.threw, value |-> t.value, requests |-> t.requests]

\* GeminiService.generateResponse: the catch block returns the apology
generateResponse(userMessage, history, hasImage, isVoiceMessage, answer) ==
  LET t == generateResponseTry(userMessage, history, hasImage,
                               isVoiceMessage, answer)
  IN [resolved |-> TRUE,
      value |-> IF t.threw THEN FallbackApology ELSE t.value,
      requests |-> t.requests]

\* the detection of the image format without its last branch
mimeType_NoWebp(imageBase64) ==
  IF StartsWith(imageBase64, JpegSignature) THEN "image/jpeg"
  ELSE IF StartsWith(imageBase64, PngSignature) THEN "image/png"
  ELSE IF StartsWith(imageBase64, GifSignature) THEN "image/gif"
  ELSE "image/jpeg"

\* let mimeType = "image/jpeg" and the if / else-if chain over startsWith
mimeType(imageBase64) ==
  IF StartsWith(imageBase64, JpegSignature) THEN "image/jpeg"
  ELSE IF StartsWith(imageBase64, PngSignature) THEN "image/png"
  ELSE IF StartsWith(imageBase64, GifSignature) THEN "image/gif"
  ELSE IF StartsWith(imageBase64, WebpSignature) THEN "image/webp"
  ELSE "image/jpeg"

\* error.message.includes(phrase), a phrase being consecutive words
includes(message, phrase) ==
  \E i \in 1..(Len(message) - Len(phrase) + 1) :
     SubSeq(message, i, i + Len(phrase) - 1) = phrase

\* the try block of analyzeImage: the blank-payload check, then one
\* generateContent([prompt, imagePart])
analyzeImageTry(imageBase64, userMessage, answer) ==
  IF Len(imageBase64) = 0 \/ Len(trim(imageBase64)) = 0
  THEN [threw |-> TRUE, value |-> NULL,
        message |-> <<"Invalid", "image", "data", "provided">>,
        requests |-> << >>]
  ELSE [threw |-> answer.kind # "text", value |-> answer.text,
        message |-> answer.message,
        requests |->
          <<[contents |-> <<"systemPrompt", "Patient's question:",
                            userMessage>>,
             inlineData |-> [data |-> imageBase64,
                             mimeType |-> mimeType(imageBase64)]]>>]

\* the reply the catch block of analyzeImage picks by the error message
imageErrorReply(message) ==
  IF includes(message, <<"API", "key">>)
  THEN "an API configuration issue"
  ELSE IF includes(message, <<"quota">>) \/ includes(message, <<"limit">>)
  THEN "currently at capacity"
  ELSE IF includes(message, <<"Invalid", "image">>)
  THEN "trouble processing this image format"
  ELSE IF includes(message, <<"safety">>)
  THEN "not able to analyze this particular type of content"
  ELSE "trouble analyzing it right now"

\* GeminiService.analyzeImage
analyzeImage(imageBase64, userMessage, answer) ==
  LET t == analyzeImageTry(imageBase64, userMessage, answer)
  IN [resolved |-> TRUE,
      value |-> IF t.threw THEN imageErrorReply(t.message) ELSE t.value,
      requests |-> t.requests]

AiFrame ==
  UNCHANGED <<patient_doctor_requests, patient_doctor_relationships,
              notifications, call, outcome, started, chatVars, videoVars,
              appVars>>

\* handleSendMessage converts its conversationHistory for the service:
\* role 'user' stays, every other role becomes 'assistant'
geminiHistory(conversationHistory) ==
  [i \in 1..Len(conversationHistory) |->
     [role |-> IF conversationHistory[i].role = "user" THEN "user"
               ELSE "assistant",
      parts |-> conversationHistory[i].parts]]

\* ChatInterface sends a message without an image
sendText ==
  /\ \E userMessage \in UserMessages, conversationHistory \in Histories,
        hasImage \in BOOLEAN, isVoiceMessage \in BOOLEAN,
        answer \in VendorAnswers :
       LET history == geminiHistory(conversationHistory)
           out == generateResponse(userMessage, history, hasImage,
                                   isVoiceMessage, answer)
       IN gemini' = [op |-> "generateResponse", imageBase64 |-> << >>,
                     userMessage |-> userMessage, history |-> history,
                     answer |-> answer,
                     requests |-> out.requests, resolved |-> out.resolved,
                     value |-> out.value]
  /\ AiFrame

\* ChatInterface sends a message with an image
sendImage ==
  /\ \E imageBase64 \in Payloads, userMessage \in UserMessages,
        answer \in VendorAnswers :
       LET out == analyzeImage(imageBase64, userMessage, answer)
       IN gemini' = [op |-> "analyzeImage", imageBase64 |-> imageBase64,
                     userMessage |-> userMessage, history |-> << >>,
                     answer |-> answer,
                     requests |-> out.requests, resolved |-> out.resolved,
                     value |-> out.value]
  /\ AiFrame

AiNext == sendText \/ sendImage

AiSpec == Init /\ [][AiNext]_vars

\* C19: generateResponse never rejects: whenever the text-generation call
\* fails, for whatever reason (network, authentication, quota, content
\* safety), it resolves to the one fixed fallback apology, for every user
\* text, history and flag combination.
C19_GenerateResponseNeverRejects ==
  gemini.op = "generateResponse"
  => /\ gemini.resolved
     /\ gemini.answer.kind # "text" => gemini.value = FallbackApology

C19_Witness ==
  /\ gemini.op = "generateResponse"
  /\ gemini.answer.kind = "rejected"
  /\ gemini.answer.message = <<"Failed", "to", "fetch">>
  /\ Len(gemini.requests) = 1
  /\ gemini.resolved /\ gemini.value = FallbackApology

\* the one request of the call declares the payload with the MIME type
\* png, gif or webp exactly when the payload starts with that signature,
\* and jpeg otherwise
IsBlank(imageBase64) ==
  \A i \in 1..Len(imageBase64) : imageBase64[i] \in Whitespace

DeclaredBySignature ==
  /\ Len(gemini.requests) = 1
  /\ LET declared == gemini.requests[1].inlineData
         png == StartsWith(gemini.imageBase64, PngSignature)
         gif == StartsWith(gemini.imageBase64, GifSignature)
         webp == StartsWith(gemini.imageBase64, WebpSignature)
     IN /\ declared.data = gemini.imageBase64
        /\ declared.mimeType = "image/png" <=> png
        /\ declared.mimeType = "image/gif" <=> gif
        /\ declared.mimeType = "image/webp" <=> webp
        /\ ~(png \/ gif \/ webp) => declared.mimeType = "image/jpeg"

\* C20 (as stated): analyzeImage declares image/png, image/gif or
\* image/webp exactly when the payload starts with the corresponding
\* signature and image/jpeg for every other payload; it never raises.
C20_MimeTypeOfEveryPayload ==
  gemini.op = "analyzeImage" => gemini.resolved /\ DeclaredBySignature

\* C20 (amended): the same for every payload that is not blank; for a blank
\* payload (empty, or white space only) analyzeImage declares nothing: it
\* sends no request and resolves to its image-format reply.
C20_MimeTypeOfNonBlankPayload ==
  gemini.op = "analyzeImage"
  => /\ gemini.resolved
     /\ IF IsBlank(gemini.imageBase64)
        THEN /\ gemini.requests = << >>
             /\ gemini.value = "trouble processing this image format"
        ELSE DeclaredBySignature

C20_Witness ==
  /\ gemini.op = "analyzeImage"
  /\ ~IsBlank(gemini.imageBase64)
  /\ \A h \in {JpegSignature, PngSignature, GifSignature, WebpSignature} :
       ~StartsWith(gemini.imageBase64, h)
  /\ gemini.requests[1].inlineData.mimeType = "image/jpeg"
  /\ gemini.resolved /\ gemini.value = "advice"

\* ------------------------------------------- startup (the vendor keys)
\* The build embeds import.meta.env; each service module constructs its
\* singleton when it is first imported, and a module whose evaluation
\* throws takes every module that imports it with it.

\* import.meta.env.VITE_GEMINI_API_KEY: undefined or a key
GeminiKeys == {NULL, "key"}

\* new GeminiService(): throws without a key
GeminiService(key) == IF key = NULL THEN "threw" ELSE "ready"

\* new TavusService(): warns without a key
TavusService(key) == "ready"

StartupFrame ==
  UNCHANGED <<patient_doctor_requests, patient_doctor_relationships,
              notifications, call, started, chatVars, api_key, consultation,
              gemini_key, accountVars, reportVars, uiVars,
              authVars>>

\* export const geminiService = new GeminiService()
loadGeminiService ==
  /\ loaded.gemini = "unloaded"
  /\ loaded' = [loaded EXCEPT !.gemini = GeminiService(gemini_key)]
  /\ UNCHANGED <<outcome, fetches, gemini>>
  /\ StartupFrame

\* export const tavusService = new TavusService()
loadTavusService ==
  /\ loaded.tavus = "unloaded"
  /\ loaded' = [loaded EXCEPT !.tavus = TavusService(api_key)]
  /\ UNCHANGED <<outcome, fetches, gemini>>
  /\ StartupFrame

\* the first tavusService.createConversation() after startup
firstCreateConversation ==
  /\ loaded.tavus = "ready" /\ outcome = NoOutcome
  /\ \E personas \in PersonasResponses, post \in PostResponses :
       LET out == createConversation(api_key, clock + 1, personas, post)
       IN /\ fetches' = fetches \o out.fetches
          /\ outcome' = VideoOutcome("createConversation", NullId, post,
                                     IF out.resolved THEN out.value
                                     ELSE Rejected)
  /\ UNCHANGED <<patient_doctor_requests, patient_doctor_relationships,
                 notifications, call, started, chat_sessions, chat_history,
                 api_key, consultation, aiVars, appVars>>
  /\ clock' = clock + 1

StartupInit ==
  /\ TablesInit
  /\ api_key \in ApiKeys
  /\ fetches = << >>
  /\ consultation = Unstarted
  /\ gemini = NoAiCall
  /\ gemini_key \in GeminiKeys
  /\ loaded = [gemini |-> "unloaded", tavus |-> "unloaded"]
  /\ SeededAccounts
  /\ consultation_reports = {}
  /\ chat_ui = NoChatInterface
  /\ auth = NoAuthProvider

StartupNext ==
  \/ loadGeminiService
  \/ loadTavusService
  \/ (loaded.gemini = "ready" /\ sendText)
  \/ firstCreateConversation

StartupSpec == StartupInit /\ [][StartupNext]_vars

\* C21: for every vendor integration an absent API key puts the
\* integration into a degraded mock mode whose operations still return
\* valid results; an absent key never makes the integration fail at
\* startup or throw to its callers.
C21_AbsentKeyDegrades ==
  /\ (gemini_key = NULL /\ loaded.gemini # "unloaded")
     => loaded.gemini = "ready"
  /\ (api_key = NULL /\ loaded.tavus # "unloaded")
     => loaded.tavus = "ready"
  /\ (api_key = NULL /\ outcome.op = "createConversation")
     => /\ outcome.result.status = "active"
        /\ StartsWith(outcome.result.conversation_id, MockPrefix)
        /\ fetches = << >>

\* -------------------------------------- accounts and the image bucket
\* auth.uid() of the people who sign up (ids are strings of characters)
UserIds == {<<"u", "1">>, <<"u", "2">>}

\* raw_user_meta_data->>'role' of a signup: absent, a role of the signup
\* form, or any other text (the auth endpoint takes whatever metadata the
\* caller sends)
RoleMetadata == {NULL, "doctor", "admin"}

\* CHECK (role IN ('patient', 'health-worker', 'doctor'))
ProfileRoles == {"patient", "health-worker", "doctor"}

\* the AFTER INSERT trigger of profiles: a doctors row for a doctor
\* profile, every error swallowed
create_doctor_record_for_profile(new, rows) ==
  LET row == [profile_id |-> new.id,
              license_number |-> <<"TEMP_">> \o new.id,
              verified |-> FALSE]
  IN IF new.role = "doctor"
        /\ ~\E d \in rows : d.license_number = row.license_number
     THEN rows \cup {row} ELSE rows

\* INSERT INTO profiles (user_id, role, ...): id by gen_random_uuid(), the
\* role CHECK, UNIQUE (user_id), then the trigger
InsertProfile(user_id, role) ==
  LET new == [id |-> <<"p", ToString(Cardinality(profiles) + 1)>>,
              user_id |-> user_id, role |-> role]
  IN IF role \in ProfileRoles /\ ~\E p \in profiles : p.user_id = user_id
     THEN [ok |-> TRUE, profiles |-> profiles \cup {new},
           doctors |-> create_doctor_record_for_profile(new, doctors)]
     ELSE [ok |-> FALSE, profiles |-> profiles, doctors |-> doctors]

\* what a call of the account and storage services leaves in `outcome`
AccountOutcome(op, c, target, arg, data, result) ==
  [op |-> op, caller |-> c, target |-> target, arg |-> arg, data |-> data,
   notify_failed |-> FALSE, result |-> result]

AccountFrame ==
  UNCHANGED <<patient_doctor_requests, patient_doctor_relationships,
              notifications, call, started, chatVars, videoVars, aiVars,
              startupVars, reportVars, uiVars,
              authVars>>

\* supabase.auth.signUp: the row of auth.users and its trigger
\* create_profile_for_user, which swallows every error of its INSERT
signUp(u, meta) ==
  /\ \A a \in auth_users : a.id # u
  /\ auth_users' = auth_users \cup {[id |-> u, role |-> meta]}
  /\ LET ins == InsertProfile(u, IF meta = NULL THEN "patient" ELSE meta)
     IN profiles' = ins.profiles /\ doctors' = ins.doctors
  /\ UNCHANGED <<storage_objects, outcome>>
  /\ AccountFrame

\* profileService.createProfileFromAuth(user) by the signed-in user: one
\* INSERT (the policy auth.uid() = user_id holds), null on any error
createProfileFromAuth(u) ==
  /\ \E a \in auth_users :
       /\ a.id = u
       /\ LET ins == InsertProfile(u, IF a.role = NULL THEN "patient"
                                      ELSE a.role)
          IN /\ profiles' = ins.profiles /\ doctors' = ins.doctors
             /\ outcome' = AccountOutcome("createProfileFromAuth", u,
                                          NullId, NULL, NullId, ins.ok)
  /\ UNCHANGED <<auth_users, storage_objects>>
  /\ AccountFrame

\* profileService.updateProfile({role}): UPDATE profiles ... WHERE user_id
\* = auth.uid(); the role CHECK applies, no trigger runs on UPDATE
updateProfile(u, role) ==
  /\ \E a \in auth_users : a.id = u
  /\ LET own == {p \in profiles : p.user_id = u}
         ok == own # {} /\ role \in ProfileRoles
     IN /\ profiles' = IF ok
                       THEN (profiles \ own) \cup
                            {[p EXCEPT !.role = role] : p \in own}
                       ELSE profiles
        /\ outcome' = AccountOutcome("updateProfile", u, NullId, role,
                                     NullId, ok)
  /\ UNCHANGED <<auth_users, doctors, storage_objects>>
  /\ AccountFrame

\* doctorService.createDoctorProfile: the role test on the caller's
\* profile, then an INSERT INTO doctors, for which the role authenticated
\* has no policy
createDoctorProfile(u) ==
  /\ \E a \in auth_users : a.id = u
  /\ LET own == {p \in profiles : p.user_id = u}
     IN outcome' = AccountOutcome("createDoctorProfile", u, NullId, NULL,
                     NullId,
                     IF \E p \in own : p.role = "doctor"
                     THEN "row-level security" ELSE "Only doctors")
  /\ UNCHANGED accountVars
  /\ AccountFrame

\* String.prototype.split and string_to_array
RECURSIVE split(_, _)
split(str, sep) ==
  IF \A i \in 1..Len(str) : str[i] # sep THEN <<str>>
  ELSE LET i == CHOOSE k \in 1..Len(str) :
                  str[k] = sep /\ \A j \in 1..(k - 1) : str[j] # sep
       IN <<SubSeq(str, 1, i - 1)>> \o split(SubSeq(str, i + 1, Len(str)), sep)

\* the INSERT policies of storage.objects ("Users can upload (images) to
\* own folder"): (string_to_array(name, '/'))[1] = auth.uid()::text
UsersCanUploadToOwnFolder(uid, row) ==
  row.bucket_id = "chat_images" /\ split(row.name, "/")[1] = uid

\* file.name and sessionId as ChatInterface passes them
FileNames == {<<"a", ".", "p", "n", "g">>, <<"s", "c", "a", "n">>}
SessionInputs == {UndefinedId, <<"s", "7">>}
General == <<"g", "e", "n", "e", "r", "a", "l">>

\* storageService.uploadImage: getCurrentProfile, the object key, the
\* upload (upsert: false) under the INSERT policy; every error is rethrown
uploadImage(u, sessionId, name) ==
  /\ \E a \in auth_users : a.id = u
  /\ LET own == {p \in profiles : p.user_id = u}
         profile == CHOOSE p \in own : TRUE
         parts == split(name, ".")
         fileExt == parts[Len(parts)]
         fileName == profile.id \o <<"/">>
                     \o (IF sessionId = UndefinedId THEN General
                         ELSE sessionId)
                     \o <<"/", ToString(clock), ".">> \o fileExt
         row == [bucket_id |-> "chat_images", name |-> fileName,
                 owner |-> u]
         stored == /\ UsersCanUploadToOwnFolder(u, row)
                   /\ \A o \in storage_objects : o.name # fileName
     IN IF own = {}
        THEN /\ outcome' = AccountOutcome("uploadImage", u, NullId,
                             sessionId, NullId, "User not authenticated")
             /\ UNCHANGED storage_objects
        ELSE /\ outcome' = AccountOutcome("uploadImage", u, fileName,
                             sessionId, profile.id,
                             IF stored THEN "publicUrl"
                             ELSE "Failed to upload image")
             /\ storage_objects' = IF stored
                                   THEN storage_objects \cup {row}
                                   ELSE storage_objects
  /\ UNCHANGED <<auth_users, profiles, doctors>>
  /\ AccountFrame

\* a fresh database and a build with every key set
AccountInit ==
  /\ TablesInit
  /\ api_key = "key" /\ fetches = << >> /\ consultation = Unstarted
  /\ gemini = NoAiCall
  /\ gemini_key = "key"
  /\ loaded = [gemini |-> "ready", tavus |-> "ready"]
  /\ auth_users = {} /\ profiles = {} /\ doctors = {}
  /\ storage_objects = {}
  /\ consultation_reports = {}
  /\ chat_ui = NoChatInterface
  /\ auth = NoAuthProvider

AccountNext ==
  \/ \E u \in UserIds, meta \in RoleMetadata : signUp(u, meta)
  \/ \E u \in UserIds : createProfileFromAuth(u)
  \/ \E u \in UserIds, role \in ProfileRoles \cup {"admin"} :
       updateProfile(u, role)
  \/ \E u \in UserIds : createDoctorProfile(u)
  \/ \E u \in UserIds, sessionId \in SessionInputs, name \in FileNames :
       uploadImage(u, sessionId, name)

AccountSpec == AccountInit /\ [][AccountNext]_vars

\* C22: every object key built by uploadImage has the form {caller's
\* profile id}/{session id or 'general'}/{filename}, and it satisfies the
\* bucket's INSERT policy for the same caller: its first path segment is
\* the caller identity the policy compares against.
C22_UploadKeySatisfiesPolicy ==
  (outcome.op = "uploadImage" /\ outcome.target # NullId)
  => LET segments == split(outcome.target, "/")
     IN /\ Len(segments) = 3
        /\ segments[1] = outcome.data
        /\ segments[2] = (IF outcome.arg = UndefinedId THEN General
                          ELSE outcome.arg)
        /\ segments[1] = outcome.caller
        /\ outcome.result = "publicUrl"

\* C23: after any sequence of signups and createProfileFromAuth calls, in
\* any interleaving, every auth principal has exactly one profile row,
\* never zero (also when the trigger's insert fails) and never two.
C23_OneProfilePerPrincipal ==
  \A a \in auth_users :
     Cardinality({p \in profiles : p.user_id = a.id}) = 1

\* C24: each profile whose role is doctor has exactly one doctors row,
\* created automatically with verified = false and a placeholder licence
\* number, also after updateProfile changed a profile's role and after
\* createDoctorProfile calls.
C24_OneDoctorRowPerDoctorProfile ==
  \A p \in profiles :
     p.role = "doctor"
     => /\ Cardinality({d \in doctors : d.profile_id = p.id}) = 1
        /\ \A d \in doctors :
             d.profile_id = p.id
             => ~d.verified /\ d.license_number = <<"TEMP_">> \o p.id

\* ------------------------------------------------ consultation reports
\* reports created in one run
MaxReports == 2

DoctorResponses == {NULL, "rest"}

\* the UPDATE policy of consultation_reports widened to the two parties of
\* the report
UsersCanUpdateReports_Parties(c, row) ==
  c \in {row.patient_id, row.doctor_id}

\* the UPDATE policies of consultation_reports: row-level security is
\* enabled and the table has a SELECT and an INSERT policy only, so no row
\* passes for the role authenticated
UsersCanUpdateReports(c, row) == FALSE

ReportFrame ==
  UNCHANGED <<patient_doctor_requests, patient_doctor_relationships,
              notifications, call, started, chatVars, videoVars, aiVars,
              startupVars, accountVars, uiVars,
              authVars>>

\* consultationReportService.createReport: one INSERT with patient_id =
\* the caller's profile, under the policy "Patients can create reports";
\* status takes its default 'sent'
createReport(c, d) ==
  /\ Cardinality(consultation_reports) < MaxReports
  /\ LET row == [id |-> Cardinality(consultation_reports) + 1,
                 patient_id |-> c, doctor_id |-> d, status |-> "sent",
                 doctor_response |-> NULL, reviewed_at |-> NULL,
                 responded_at |-> NULL]
         ok == ProfileRole(c) = "patient"
     IN /\ consultation_reports' =
             IF ok THEN consultation_reports \cup {row}
             ELSE consultation_reports
        /\ outcome' = [op |-> "createReport", caller |-> c,
                       target |-> row.id, arg |-> d, data |-> NULL,
                       notify_failed |-> FALSE, result |-> ok]
  /\ ReportFrame

\* consultationReportService.updateReportStatus: UPDATE ... SET status,
\* <status>_at [, doctor_response] WHERE id = reportId, on the rows the
\* policies let the caller update; true unless the statement fails
updateReportStatus(c, reportId, status, doctorResponse) ==
  /\ LET hit == {r \in consultation_reports :
                   r.id = reportId /\ UsersCanUpdateReports(c, r)}
         Updated(r) ==
           [r EXCEPT !.status = status,
                     !.reviewed_at =
                        IF status = "reviewed" THEN clock ELSE @,
                     !.responded_at =
                        IF status = "responded" THEN clock ELSE @,
                     !.doctor_response =
                        IF doctorResponse # NULL THEN doctorResponse ELSE @]
     IN /\ consultation_reports' =
             (consultation_reports \ hit) \cup {Updated(r) : r \in hit}
        /\ outcome' = [op |-> "updateReportStatus", caller |-> c,
                       target |-> reportId, arg |-> status,
                       data |-> doctorResponse, notify_failed |-> FALSE,
                       result |-> TRUE]
  /\ ReportFrame

ReportNext ==
  \/ \E c \in Profiles, d \in Doctors : createReport(c, d)
  \/ \E c \in Profiles, reportId \in 1..MaxReports,
        status \in {"reviewed", "responded"},
        doctorResponse \in DoctorResponses :
       updateReportStatus(c, reportId, status, doctorResponse)

ReportSpec == Init /\ [][ReportNext]_vars

\* C25: a report's status only progresses sent -> reviewed -> responded:
\* the only status changes a sequence of updateReportStatus calls can
\* produce are sent -> reviewed and reviewed -> responded, so a report
\* never moves from responded back to reviewed.
StatusProgresses ==
  \A r \in consultation_reports :
     \A q \in consultation_reports' :
        (q.id = r.id /\ q.status # r.status)
        => <<r.status, q.status>> \in
             {<<"sent", "reviewed">>, <<"reviewed", "responded">>}

MaxSends == 2

SendIds == 1..MaxSends

\* the patient who has the view open
Viewer == "p1"

\* an invocation of handleSendMessage: its position, the currentSession
\* and isSavingMessage its closure holds (0 for null), and the save it is
\* waiting for
IdleSend ==
  [pc |-> "idle", currentSession |-> 0, isSavingMessage |-> FALSE,
   message |-> NULL, read |-> << >>, after |-> "idle"]

\* the component as it is mounted: useState / useRef initial values and
\* loadChatSession started by the [sessionId] effect; appended is the list
\* of the messages handleSendMessage added to the displayed conversation
Mounted ==
  [load |-> "get", currentSession |-> 0, isSavingMessage |-> FALSE,
   isLoading |-> FALSE, processedInitialMessage |-> FALSE,
   appended |-> << >>, sends |-> [n \in SendIds |-> IdleSend]]

UiFrame ==
  UNCHANGED <<patient_doctor_requests, patient_doctor_relationships,
              notifications, call, outcome, started, chat_history,
              videoVars, aiVars, startupVars, accountVars, reportVars,
              authVars>>

\* loadChatSession, first await: getCurrentSession() (null on any error)
loadChatSessionGet ==
  /\ chat_ui.load = "get"
  /\ \E fault \in BOOLEAN :
       IF ~fault /\ CurrentSessions(chat_sessions, Viewer) # {}
       THEN \E r \in CurrentSessions(chat_sessions, Viewer) :
              chat_ui' = [chat_ui EXCEPT !.load = "done",
                                         !.currentSession = r.id]
       ELSE chat_ui' = [chat_ui EXCEPT !.load = "create"]
  /\ UNCHANGED <<chat_sessions, clock>>
  /\ UiFrame

\* loadChatSession, second await: createNewSession(); an error is caught
\* and leaves currentSession null
loadChatSessionCreate ==
  /\ chat_ui.load = "create"
  /\ \E fault \in BOOLEAN :
       IF fault
       THEN /\ chat_ui' = [chat_ui EXCEPT !.load = "done"]
            /\ UNCHANGED <<chat_sessions, clock>>
       ELSE LET row == [id |-> NewSessionId, patient_id |-> Viewer,
                        messages |-> << >>, last_message_at |-> clock + 1]
            IN /\ chat_sessions' = chat_sessions \cup {row}
               /\ clock' = clock + 1
               /\ chat_ui' = [chat_ui EXCEPT !.load = "done",
                                             !.currentSession = row.id]
  /\ UiFrame

\* saveMessageToHistory up to its await: nothing when the closure has no
\* session or sees a save in progress, else setIsSavingMessage(true) and
\* chatHistoryService.saveMessage is called
saveMessageToHistory(ui, n, message, after) ==
  IF ui.sends[n].currentSession = 0 \/ ui.sends[n].isSavingMessage
  THEN [ui EXCEPT !.sends[n].pc = after,
                  !.isLoading = IF after = "done" THEN FALSE ELSE @]
  ELSE [ui EXCEPT !.sends[n].pc = "select",
                  !.sends[n].message = message,
                  !.sends[n].after = after,
                  !.isSavingMessage = TRUE]

\* handleSendMessage from the initialMessage effect (initial) or from the
\* input controls, which are disabled while isLoading: the user message is
\* displayed and handed to saveMessageToHistory
handleSendMessage(n, initial) ==
  /\ chat_ui.sends[n].pc = "idle"
  /\ \A k \in SendIds : k < n => chat_ui.sends[k].pc # "idle"
  /\ IF initial THEN ~chat_ui.processedInitialMessage
     ELSE ~chat_ui.isLoading
  /\ LET userMessage == [type |-> "user", id |-> n]
         ui == [chat_ui EXCEPT
                  !.processedInitialMessage = @ \/ initial,
                  !.appended = Append(@, userMessage),
                  !.isLoading = TRUE,
                  !.sends[n].currentSession = chat_ui.currentSession,
                  !.sends[n].isSavingMessage = chat_ui.isSavingMessage]
     IN chat_ui' = saveMessageToHistory(ui, n, userMessage, "ai")
  /\ UNCHANGED <<chat_sessions, clock>>
  /\ UiFrame

\* chatHistoryService.saveMessage, first round trip: the messages of the
\* session are read
saveMessageSelect(n) ==
  /\ chat_ui.sends[n].pc = "select"
  /\ \E r \in chat_sessions :
       /\ r.id = chat_ui.sends[n].currentSession
       /\ chat_ui' = [chat_ui EXCEPT !.sends[n].pc = "update",
                                     !.sends[n].read = r.messages]
  /\ UNCHANGED <<chat_sessions, clock>>
  /\ UiFrame

\* second round trip: messages = [...read, message] is written; then the
\* finally block of saveMessageToHistory and what follows the await
saveMessageWrite(n) ==
  /\ chat_ui.sends[n].pc = "update"
  /\ LET send == chat_ui.sends[n]
     IN /\ chat_sessions' =
             {IF r.id = send.currentSession
              THEN [r EXCEPT !.messages = Append(send.read, send.message),
                             !.last_message_at = clock + 1]
              ELSE r : r \in chat_sessions}
        /\ chat_ui' =
             [chat_ui EXCEPT
                !.isSavingMessage = FALSE,
                !.sends[n].pc = send.after,
                !.isLoading = IF send.after = "done" THEN FALSE ELSE @]
  /\ clock' = clock + 1
  /\ UiFrame

\* the AI call returns (aiMessage) or throws (errorMessage): the reply is
\* displayed and handed to saveMessageToHistory; then the finally block
aiReply(n) ==
  /\ chat_ui.sends[n].pc = "ai"
  /\ \E type \in {"ai", "error"} :
       LET reply == [type |-> type, id |-> n]
           ui == [chat_ui EXCEPT !.appended = Append(@, reply)]
       IN chat_ui' = saveMessageToHistory(ui, n, reply, "done")
  /\ UNCHANGED <<chat_sessions, clock>>
  /\ UiFrame

\* the view is opened by a patient with no session yet or with one
UiInit ==
  /\ patient_doctor_requests = {} /\ patient_doctor_relationships = {}
  /\ notifications = EmptyBag
  /\ call = [s \in Slots |-> Idle]
  /\ outcome = NoOutcome /\ started = 0
  /\ chat_sessions \in
       {{}, {[id |-> 1, patient_id |-> Viewer, messages |-> << >>,
              last_message_at |-> 0]}}
  /\ clock = 0 /\ chat_history = << >>
  /\ api_key = "key" /\ fetches = << >> /\ consultation = Unstarted
  /\ gemini = NoAiCall
  /\ gemini_key = "key"
  /\ loaded = [gemini |-> "ready", tavus |-> "ready"]
  /\ SeededAccounts
  /\ consultation_reports = {}
  /\ chat_ui = Mounted
  /\ auth = NoAuthProvider

UiNext ==
  \/ loadChatSessionGet
  \/ loadChatSessionCreate
  \/ \E n \in SendIds, initial \in BOOLEAN : handleSendMessage(n, initial)
  \/ \E n \in SendIds : saveMessageSelect(n)
  \/ \E n \in SendIds : saveMessageWrite(n)
  \/ \E n \in SendIds : aiReply(n)

UiSpec == UiInit /\ [][UiNext]_vars

\* C27: every message handleSendMessage appends to the displayed
\* conversation (the user message and the AI or error reply) is also
\* appended to the persisted chat session, including messages sent before
\* the session has finished loading and messages sent while another save
\* is in progress.
C27_DisplayedIsPersisted ==
  (/\ chat_ui.load = "done"
   /\ \A n \in SendIds : chat_ui.sends[n].pc \in {"idle", "done"})
  => \A i \in 1..Len(chat_ui.appended) :
        \E r \in chat_sessions :
           /\ r.id = chat_ui.currentSession
           /\ \E j \in 1..Len(r.messages) :
                r.messages[j] = chat_ui.appended[i]

\* ------------------------------------------------ AuthProvider (AuthContext)
\* login, signup and logout calls in one run
MaxAuthCalls == 3

\* handleUserSession invocations that can be in flight together
MaxHandlers == 2

HandlerIds == 1..MaxHandlers

\* the account the browser signs in with
AuthUser == "p1"

NoAuthCall == [op |-> "none", user |-> NULL]

IdleHandler == [pc |-> "idle", user |-> NULL]

\* AuthProvider as it is mounted: useState initial values, initializeAuth
\* started; session is the session the Supabase client holds, events the
\* auth state changes not yet delivered to the onAuthStateChange callback,
\* loggedOut whether logout() completed with no sign-in since
AuthMounted(session) ==
  [init |-> "pending", user |-> NULL, profile |-> NULL, isLoading |-> TRUE,
   session |-> session, call |-> NoAuthCall, events |-> << >>,
   handlers |-> [h \in HandlerIds |-> IdleHandler],
   calls |-> 0, loggedOut |-> FALSE]

AuthFrame ==
  UNCHANGED <<patient_doctor_requests, patient_doctor_relationships,
              notifications, call, outcome, started, chatVars, videoVars,
              aiVars, startupVars, accountVars, reportVars, uiVars>>

\* handleUserSession up to its await: setUser(userObj), then
\* profileService.getCurrentProfile() is raced against 2 s
handleUserSession(a, h, supabaseUser) ==
  [a EXCEPT !.user = supabaseUser,
            !.loggedOut = FALSE,
            !.handlers[h] = [pc |-> "getUser", user |-> supabaseUser]]

\* initializeAuth after supabase.auth.getSession() or its 10 s timeout
initializeAuth ==
  /\ auth.init = "pending"
  /\ \E result \in {"session", "error", "timeout"} :
       IF result = "session" /\ auth.session # NULL
       THEN \E h \in HandlerIds :
              /\ auth.handlers[h].pc = "idle"
              /\ auth' = [handleUserSession(auth, h, auth.session)
                            EXCEPT !.init = "done"]
       ELSE auth' = [auth EXCEPT !.init = "done", !.isLoading = FALSE]
  /\ AuthFrame

\* the onAuthStateChange callback with the oldest undelivered event
onAuthStateChange ==
  /\ auth.init # "unmounted"
  /\ auth.events # << >>
  /\ LET session == Head(auth.events)
         a == [auth EXCEPT !.events = Tail(@)]
     IN IF session # NULL
        THEN \E h \in HandlerIds :
               /\ auth.handlers[h].pc = "idle"
               /\ auth' = handleUserSession(a, h, session)
        ELSE auth' = [a EXCEPT !.user = NULL, !.profile = NULL,
                               !.isLoading = FALSE]
  /\ AuthFrame

\* getCurrentProfile, first await: supabase.auth.getUser(); without a
\* user it returns null, and handleUserSession goes to its finally block
getCurrentProfileUser(h) ==
  /\ auth.handlers[h].pc = "getUser"
  /\ auth' = IF auth.session = NULL
             THEN [auth EXCEPT !.handlers[h] = IdleHandler,
                               !.isLoading = FALSE]
             ELSE [auth EXCEPT !.handlers[h].pc = "select"]
  /\ AuthFrame

\* getCurrentProfile, second await: the profiles row comes back (or none);
\* then setProfile, setUser(prev => prev ? {...} : null) and the finally
\* block of handleUserSession
getCurrentProfileRow(h) ==
  /\ auth.handlers[h].pc = "select"
  /\ \E userProfile \in {NULL, auth.handlers[h].user} :
       auth' = [auth EXCEPT
                  !.profile = IF userProfile # NULL THEN userProfile ELSE @,
                  !.handlers[h] = IdleHandler,
                  !.isLoading = FALSE]
  /\ AuthFrame

\* the 2 s 'Profile timeout' wins the race: caught, then the finally block
profileTimeout(h) ==
  /\ auth.handlers[h].pc \in {"getUser", "select"}
  /\ auth' = [auth EXCEPT !.handlers[h] = IdleHandler, !.isLoading = FALSE]
  /\ AuthFrame

\* login(), signup() and logout() up to their await
authCall(op) ==
  /\ auth.init # "unmounted"
  /\ auth.call = NoAuthCall
  /\ auth.calls < MaxAuthCalls
  /\ auth' = [auth EXCEPT !.call = [op |-> op, user |-> AuthUser],
                          !.calls = @ + 1,
                          !.isLoading = IF op = "logout" THEN @ ELSE TRUE]
  /\ AuthFrame

\* login() after signInWithPassword or its 20 s timeout: on success the
\* client holds the session, SIGNED_IN is emitted and setUser is called;
\* otherwise the catch block runs
loginSettled ==
  /\ auth.call.op = "login"
  /\ \E result \in {"ok", "error", "timeout"} :
       auth' = IF result = "ok"
               THEN [auth EXCEPT !.call = NoAuthCall,
                                 !.session = auth.call.user,
                                 !.events = Append(@, auth.call.user),
                                 !.user = auth.call.user,
                                 !.loggedOut = FALSE]
               ELSE [auth EXCEPT !.call = NoAuthCall, !.isLoading = FALSE]
  /\ AuthFrame

\* signup() after signUp or its 20 s timeout: a project that confirms
\* e-mail addresses returns the user with no session and emits no event
signupSettled ==
  /\ auth.call.op = "signup"
  /\ \E result \in {"session", "confirm", "error", "timeout"} :
       auth' = CASE result = "session" ->
                      [auth EXCEPT !.call = NoAuthCall,
                                   !.session = auth.call.user,
                                   !.events = Append(@, auth.call.user),
                                   !.user = auth.call.user,
                                   !.loggedOut = FALSE]
                 [] result = "confirm" ->
                      [auth EXCEPT !.call = NoAuthCall,
                                   !.user = auth.call.user,
                                   !.loggedOut = FALSE]
                 [] OTHER ->
                      [auth EXCEPT !.call = NoAuthCall, !.isLoading = FALSE]
  /\ AuthFrame

\* logout() after signOut: on success the client drops the session and
\* emits SIGNED_OUT; the finally block clears user and profile either way
logoutSettled ==
  /\ auth.call.op = "logout"
  /\ \E result \in {"ok", "error"} :
       auth' = [auth EXCEPT
                  !.call = NoAuthCall,
                  !.session = IF result = "ok" THEN NULL ELSE @,
                  !.events = IF result = "ok" THEN Append(@, NULL) ELSE @,
                  !.user = NULL,
                  !.profile = NULL,
                  !.loggedOut = TRUE]
  /\ AuthFrame

\* the application is opened with or without a stored session
AuthInit ==
  /\ TablesInit
  /\ api_key = "key" /\ fetches = << >> /\ consultation = Unstarted
  /\ gemini = NoAiCall
  /\ gemini_key = "key"
  /\ loaded = [gemini |-> "ready", tavus |-> "ready"]
  /\ SeededAccounts
  /\ consultation_reports = {}
  /\ chat_ui = NoChatInterface
  /\ \E session \in {NULL, AuthUser} : auth = AuthMounted(session)

\* what the runtime completes on its own: promises settle (every await
\* of the provider is a network call or races a timer) and queued events
\* are delivered
AuthSettles ==
  \/ initializeAuth
  \/ onAuthStateChange
  \/ \E h \in HandlerIds : getCurrentProfileUser(h)
  \/ \E h \in HandlerIds : getCurrentProfileRow(h)
  \/ \E h \in HandlerIds : profileTimeout(h)
  \/ loginSettled
  \/ signupSettled
  \/ logoutSettled

AuthNext ==
  \/ \E op \in {"login", "signup", "logout"} : authCall(op)
  \/ AuthSettles

AuthSpec == AuthInit /\ [][AuthNext]_vars

AuthFairSpec == AuthSpec /\ WF_vars(AuthSettles)

\* C28: once logout() has completed and no later sign-in event occurs,
\* user and profile are both null and stay null, even if a
\* handleUserSession call that started before the logout is still awaiting
\* its profile fetch; and in every reachable state profile is non-null
\* only if user is non-null.
C28_LoggedOutStaysCleared ==
  auth.init # "unmounted" =>
    /\ auth.profile # NULL => auth.user # NULL
    /\ auth.loggedOut => auth.user = NULL /\ auth.profile = NULL

\* C29: every login() or signup() call eventually leaves isLoading false,
\* whether the auth call succeeds, returns an error or times out,
\* including a successful call after which no auth-state-change event
\* carrying a session is delivered.
C29_CallLeavesLoadingFalse ==
  (auth.call.op \in {"login", "signup"}) ~> ~auth.isLoading

\* ------------------------------------------ the prompt's prior turns (C30)
\* the prior turns labelled by their speaker: a user message under
\* 'Patient', an AI reply under 'Dr. Ava', in the order of the history
RECURSIVE speakerLines(_)
speakerLines(history) ==
  IF history = << >> THEN << >>
  ELSE <<IF Head(history).role = "user" THEN "Patient" ELSE "Dr. Ava",
         Head(history).parts>> \o speakerLines(Tail(history))

\* C30: the single prompt built by generateResponse labels every prior
\* turn by its speaker: each earlier AI reply that ChatInterface passes in
\* the history is serialized under 'Dr. Ava' and each earlier user message
\* under 'Patient', in the original order, followed by the new user text.
C30_TurnsLabelledBySpeaker ==
  gemini.op = "generateResponse" =>
    \A r \in 1..Len(gemini.requests) :
      LET contents == gemini.requests[r].contents
          turns == 2 * Len(gemini.history)
      IN /\ Len(gemini.history) > 0 =>
              SubSeq(contents, Len(contents) - 2 - turns,
                     Len(contents) - 3) = speakerLines(gemini.history)
         /\ SubSeq(contents, Len(contents) - 2, Len(contents) - 1) =
              <<"Patient", gemini.userMessage>>

====
